---- MODULE Spec2Model ----
(***************************************************************************)
(* Model of the PGT-A report generator's bulk loader                       *)
(* (PGTAReportGeneratorApp.parse_bulk_excel in pgta_report_generator.py):  *)
(* record linkage of the Details roster with the summary results, the      *)
(* overall result classifier and the CNV notation parser.                  *)
(*                                                                         *)
(* Spec loads a workbook; SpecNotation and SpecClassify put one summary    *)
(* row through the per-row code; SpecClause puts one clause through the    *)
(* per-clause code; SpecRender hands one embryo record to the PDF and the  *)
(* DOCX generator; SpecAutosomes calls generate_autosomes_string once.     *)
(* SpecBulkReport takes one summary row from the loader to the two         *)
(* generators; SpecBatch is the batch tab (load, select, edit, save,       *)
(* drafts); SpecGenerate is report generation by ReportGeneratorWorker and *)
(* SpecSingleReport the report of the selected batch patient; SpecManual   *)
(* is the embryo section of the manual form with copy_last_embryo;         *)
(* SpecPreview is the live preview of both tabs under weak fairness of the *)
(* debounce timers, the PreviewWorker threads and the finished slots.      *)
(*                                                                         *)
(* Python str values are TLA+ strings; TLC evaluates Len, SubSeq, Head,    *)
(* Tail and \o on them, so the regular expressions of the source are       *)
(* modelled character by character.  A blank spreadsheet cell is the       *)
(* string "nan" (what str() makes of the NaN pandas reads), a missing      *)
(* column is the default the source passes to .get().                      *)
(***************************************************************************)
EXTENDS Integers, Sequences, FiniteSets, TLC

VARIABLES
    disk_file,               \* the workbook chosen in browse_bulk_file
    bulk_patient_data_list,  \* self.bulk_patient_data_list
    batch_list_widget,       \* items of self.batch_list_widget
    message,                 \* the last QMessageBox shown by the loader
    attached,                \* per listed patient, the summary rows it was given
    s_row,                   \* one summary row handed to the per-row code
    clauses,                 \* the events the lab wrote into s_row.Result
    row_out,                 \* what the per-row code produced for s_row
    embryo_data,             \* one embryo record handed to the report generators
    pdf_page,                \* the colors PGTAReportTemplate.generate_pdf chose
    docx_page,               \* the colors PGTADocxGenerator.generate_docx chose
    auto_call,               \* one call of generate_autosomes_string
    current_batch_index,     \* <<self.current_batch_index>>, <<>> while the attribute is not set
    batch_editor,            \* the widgets of the batch editor
    draft_file,              \* the JSON file written by save_bulk_draft
    uncaught,                \* the exception that left a slot, "none" if none did
    current_patient_data,    \* <<self.current_patient_data>>, <<>> for the empty dict
    format_checks,           \* generate_pdf_check and generate_docx_check
    worker,                  \* self.worker, the ReportGeneratorWorker thread
    written,                 \* the report files written for the latest request
    manual_form,             \* embryo_count_spin, summary_table and embryo_forms
    preview_timer,           \* self.preview_timer is active
    preview_worker,          \* <<self.preview_worker>>, <<>> while not set
    pdf_document,            \* <<the PDF loaded in self.pdf_document>>
    batch_preview_timer,     \* self.batch_preview_timer is active
    batch_preview_worker,    \* <<self.batch_preview_worker>>, <<>> while not set
    batch_pdf_document,      \* <<the PDF loaded in self.batch_pdf_document>>
    temp_files,              \* the preview PDFs on disk, by path
    queued                   \* PreviewWorker.finished signals waiting for their slot

render_vars == <<embryo_data, pdf_page, docx_page, auto_call>>

report_vars == <<current_patient_data, format_checks, worker, written>>

manual_vars == <<manual_form, preview_timer, preview_worker, pdf_document>>

batch_preview_vars ==
    <<batch_preview_timer, batch_preview_worker, batch_pdf_document>>

preview_vars == <<manual_vars, batch_preview_vars, temp_files, queued>>

gui_vars == <<current_batch_index, batch_editor, draft_file, uncaught,
              current_patient_data, format_checks, worker, written,
              preview_vars>>

vars == <<disk_file, bulk_patient_data_list, batch_list_widget, message,
          attached, s_row, clauses, row_out, embryo_data, pdf_page, docx_page,
          auto_call, current_batch_index, batch_editor, draft_file, uncaught,
          current_patient_data, format_checks, worker, written, preview_vars>>

-----------------------------------------------------------------------------
(* Bounds of the model *)

MaxClauses == 2
MaxRosterRows == 2
MaxResultRows == 2
MaxStats == 3

-----------------------------------------------------------------------------
(* Python str primitives *)

Ch(s, i) == SubSeq(s, i, i)

DigitChars == {"0", "1", "2", "3", "4", "5", "6", "7", "8", "9"}

IsDigit(c) == c \in DigitChars

LowerLetters == "abcdefghijklmnopqrstuvwxyz"

UpperLetters == "ABCDEFGHIJKLMNOPQRSTUVWXYZ"

ToUpper == [c \in {Ch(LowerLetters, i) : i \in 1..26} |->
              Ch(UpperLetters, CHOOSE i \in 1..26 : Ch(LowerLetters, i) = c)]

ToLower == [c \in {Ch(UpperLetters, i) : i \in 1..26} |->
              Ch(LowerLetters, CHOOSE i \in 1..26 : Ch(UpperLetters, i) = c)]

upper_ch(c) == IF c \in DOMAIN ToUpper THEN ToUpper[c] ELSE c

lower_ch(c) == IF c \in DOMAIN ToLower THEN ToLower[c] ELSE c

RECURSIVE upper(_)
upper(s) == IF s = "" THEN "" ELSE upper_ch(Head(s)) \o upper(Tail(s))

RECURSIVE lower(_)
lower(s) == IF s = "" THEN "" ELSE lower_ch(Head(s)) \o lower(Tail(s))

IsAlnumUpper(c) == IsDigit(c) \/ c \in DOMAIN ToLower

Whitespace == {" ", "\t", "\n", "\r", "\f"}

\* s.strip(chars)
RECURSIVE lstrip(_, _)
lstrip(s, chars) ==
    IF s # "" /\ Head(s) \in chars THEN lstrip(Tail(s), chars) ELSE s

RECURSIVE rstrip(_, _)
rstrip(s, chars) ==
    IF s # "" /\ Ch(s, Len(s)) \in chars
    THEN rstrip(SubSeq(s, 1, Len(s) - 1), chars)
    ELSE s

\* s.strip()
strip(s) == rstrip(lstrip(s, Whitespace), Whitespace)

\* s.strip(' \t\r\f\v'), which keeps the newlines
strip_keep_newlines(s) ==
    rstrip(lstrip(s, Whitespace \ {"\n"}), Whitespace \ {"\n"})

\* sub in s
Contains(sub, s) ==
    \E i \in 1..(Len(s) - Len(sub) + 1) : SubSeq(s, i, i + Len(sub) - 1) = sub

startswith(s, prefix) ==
    Len(prefix) <= Len(s) /\ SubSeq(s, 1, Len(prefix)) = prefix

\* s.replace(c, '') for a one-character c
RECURSIVE remove_char(_, _)
remove_char(s, c) ==
    IF s = "" THEN ""
    ELSE (IF Head(s) = c THEN "" ELSE Head(s)) \o remove_char(Tail(s), c)

\* s.split(sep) for a one-character sep
RECURSIVE split_from(_, _, _, _)
split_from(s, sep, st, i) ==
    IF i > Len(s) THEN <<SubSeq(s, st, Len(s))>>
    ELSE IF Ch(s, i) = sep
         THEN <<SubSeq(s, st, i - 1)>> \o split_from(s, sep, i + 1, i + 1)
         ELSE split_from(s, sep, st, i + 1)

split(s, sep) == split_from(s, sep, 1, 1)

SetMin(S) == CHOOSE x \in S : \A y \in S : x <= y

\* the maximal run of digits of s that starts at position q
RECURSIVE digit_run_end(_, _)
digit_run_end(s, q) ==
    IF q < Len(s) /\ IsDigit(Ch(s, q + 1)) THEN digit_run_end(s, q + 1) ELSE q

\* dict primitives: a dict is a function on its keys
Range(q) == {q[i] : i \in DOMAIN q}

EmptyDict == [k \in {} |-> ""]

dict_set(d, k, v) == [x \in (DOMAIN d) \cup {k} |-> IF x = k THEN v ELSE d[x]]

dict_update(d, e) ==
    [x \in (DOMAIN d) \cup (DOMAIN e) |-> IF x \in DOMAIN e THEN e[x] ELSE d[x]]

-----------------------------------------------------------------------------
(* The notation parser: parse_complex_result and the legacy dash fallback *)

\* {str(i): 'N' for i in range(1, 23)}
ChromKeys == {"1", "2", "3", "4", "5", "6", "7", "8", "9", "10", "11", "12",
              "13", "14", "15", "16", "17", "18", "19", "20", "21", "22"}

InitialStatuses == [k \in ChromKeys |-> "N"]

\* the alternatives of the lookahead (?=(?:del|dup|mos|[+-]|Monosomy|Trisomy)),
\* lower-cased because the split is IGNORECASE
SplitKeywords == {"del", "dup", "mos", "+", "-", "monosomy", "trisomy"}

keyword_ahead(s, j) ==
    \E kw \in SplitKeywords :
        /\ j + Len(kw) - 1 <= Len(s)
        /\ lower(SubSeq(s, j, j + Len(kw) - 1)) = kw

RECURSIVE skip_spaces(_, _)
skip_spaces(s, j) ==
    IF j <= Len(s) /\ Ch(s, j) \in Whitespace THEN skip_spaces(s, j + 1) ELSE j

\* re.split(r',\s*(?=(?:del|dup|mos|[+-]|Monosomy|Trisomy))', r_str, IGNORECASE)
\* scanned from position i, the current piece starting at st
RECURSIVE re_split_events(_, _, _)
re_split_events(s, st, i) ==
    IF i > Len(s) THEN <<SubSeq(s, st, Len(s))>>
    ELSE IF Ch(s, i) = "," /\ keyword_ahead(s, skip_spaces(s, i + 1))
         THEN <<SubSeq(s, st, i - 1)>>
              \o re_split_events(s, skip_spaces(s, i + 1), skip_spaces(s, i + 1))
         ELSE re_split_events(s, st, i + 1)

NoMatch == [found |-> FALSE, etype |-> "", chrom |-> ""]

\* the match whose keyword is at p and whose chromosome starts at q
event_match(part, p, q) ==
    [found |-> TRUE,
     etype |-> lower(SubSeq(part, p, p + 2)),
     chrom |-> IF IsDigit(Ch(part, q))
               THEN SubSeq(part, q, digit_run_end(part, q))
               ELSE Ch(part, q)]

\* \D*?(\d+|X|Y) after the keyword at p: qs are the places a chromosome can start
chrom_after(part, p, qs) ==
    IF qs = {} THEN NoMatch ELSE event_match(part, p, SetMin(qs))

\* ps are the places a keyword starts; the leftmost one is tried first
event_from(part, ps) ==
    IF ps = {} THEN NoMatch
    ELSE chrom_after(part, SetMin(ps),
             {q \in (SetMin(ps) + 3)..Len(part) :
                 IsDigit(Ch(part, q)) \/ lower_ch(Ch(part, q)) \in {"x", "y"}})

\* re.search(r'(del|dup|mos)\D*?(\d+|X|Y)', part, IGNORECASE):
\* the leftmost keyword, then the first digit run or x/y after it
re_search_event(part) ==
    event_from(part, {p \in 1..(Len(part) - 2) :
                         lower(SubSeq(part, p, p + 2)) \in {"del", "dup", "mos"}})

\* bool(re.search(r'([pq]\d|mb)', part, IGNORECASE))
is_seg_of(part) ==
    \E i \in 1..(Len(part) - 1) :
        \/ lower_ch(Ch(part, i)) \in {"p", "q"} /\ IsDigit(Ch(part, i + 1))
        \/ lower(SubSeq(part, i, i + 1)) = "mb"

percent_from(s, qs) ==
    IF qs = {} THEN [found |-> FALSE, group |-> ""]
    ELSE [found |-> TRUE,
          group |-> SubSeq(s, SetMin(qs), digit_run_end(s, SetMin(qs)))]

\* re.search(r'[~]*(\d+)%', s) and re.search(r'(\d+)%', s): group 1 is the
\* first maximal digit run that is directly followed by '%'
re_search_percent(s) ==
    percent_from(s, {q \in 1..Len(s) :
                        /\ IsDigit(Ch(s, q))
                        /\ (q = 1 \/ ~IsDigit(Ch(s, q - 1)))
                        /\ digit_run_end(s, q) < Len(s)
                        /\ Ch(s, digit_run_end(s, q) + 1) = "%"})

\* a classifier that forgets the mosaic upgrade
event_status_no_upgrade(etype, is_seg, has_pct) ==
    IF etype = "del" THEN (IF is_seg THEN "SL" ELSE "L")
    ELSE IF etype = "dup" THEN (IF is_seg THEN "SG" ELSE "G")
    ELSE IF etype = "mos" THEN "M"
    ELSE "N"

\* the status a del/dup/mos clause gets
event_status(etype, is_seg, has_pct) ==
    IF has_pct /\ etype = "dup" THEN (IF is_seg THEN "SMG" ELSE "MG")
    ELSE IF has_pct /\ etype = "del" THEN (IF is_seg THEN "SML" ELSE "ML")
    ELSE IF etype = "del" THEN (IF is_seg THEN "SL" ELSE "L")
    ELSE IF etype = "dup" THEN (IF is_seg THEN "SG" ELSE "G")
    ELSE IF etype = "mos" THEN "M"
    ELSE "N"

\* lines 4793-4816: the clause matched the del/dup/mos expression
record_event(acc, match, is_seg, mos_match) ==
    [c_map |-> dict_set(acc.c_map, match.chrom,
                        event_status(match.etype, is_seg, mos_match.found)),
     m_map |-> IF mos_match.found
               THEN dict_set(acc.m_map, match.chrom, mos_match.group)
               ELSE acc.m_map]

\* lines 4823-4828: ch is the clause without its signs
record_sign(acc, ch, status) ==
    IF ch \in ChromKeys
    THEN [acc EXCEPT !.c_map = dict_set(acc.c_map, ch, status)]
    ELSE acc

parse_matched(acc, part, match) ==
    IF match.found
    THEN record_event(acc, match, is_seg_of(part), re_search_percent(part))
    ELSE IF startswith(part, "+")
    THEN record_sign(acc, strip(remove_char(part, "+")), "G")
    ELSE IF startswith(part, "-")
    THEN record_sign(acc, strip(remove_char(part, "-")), "L")
    ELSE acc

parse_stripped(acc, part) ==
    IF part = "" THEN acc ELSE parse_matched(acc, part, re_search_event(part))

\* one iteration of `for part in parts`, acc = [c_map, m_map]
parse_part(acc, raw) == parse_stripped(acc, strip(raw))

RECURSIVE parse_parts(_, _, _)
parse_parts(parts, i, acc) ==
    IF i > Len(parts) THEN acc
    ELSE parse_parts(parts, i + 1, parse_part(acc, parts[i]))

parse_complex_result(r_str) ==
    IF r_str = "" \/ lower(r_str) = "nan"
    THEN [c_map |-> EmptyDict, m_map |-> EmptyDict]
    ELSE parse_parts(re_split_events(r_str, 1, 1), 1,
                     [c_map |-> EmptyDict, m_map |-> EmptyDict])

legacy_one(acc, ch, s_type) ==
    IF ch \in DOMAIN acc.chr_statuses
    THEN [chr_statuses |-> dict_set(acc.chr_statuses, ch, s_type),
          p_stats |-> dict_set(acc.p_stats, ch, s_type)]
    ELSE acc

\* `for ch in s_chrs` of the legacy dash fallback, acc = [chr_statuses, p_stats]
RECURSIVE legacy_assign(_, _, _, _)
legacy_assign(s_chrs, i, s_type, acc) ==
    IF i > Len(s_chrs) THEN acc
    ELSE legacy_assign(s_chrs, i + 1, s_type, legacy_one(acc, strip(s_chrs[i]), s_type))

\* lines 4839-4847, parts = res_sum.split('-')
legacy_split(parts, acc) ==
    IF Len(parts) >= 2
    THEN legacy_assign(split(parts[2], ","), 1, parts[1], acc)
    ELSE acc

\* line 4838, acc = [chr_statuses, p_stats] after the update with the parsed maps
legacy_fallback(res_sum, acc) ==
    IF /\ acc.p_stats = EmptyDict
       /\ Contains("-", res_sum)
       /\ ~Contains("del", lower(res_sum))
    THEN legacy_split(split(res_sum, "-"), acc)
    ELSE acc

cell_of(m_map, acc) ==
    [chromosome_statuses |-> acc.chr_statuses,
     mosaic_percentages |-> dict_update(EmptyDict, m_map),
     p_stats |-> acc.p_stats]

\* lines 4833-4847, parsed = parse_complex_result(res_sum)
apply_parsed(res_sum, parsed) ==
    cell_of(parsed.m_map,
            legacy_fallback(res_sum,
                [chr_statuses |-> dict_update(InitialStatuses, parsed.c_map),
                 p_stats |-> parsed.c_map]))

\* lines 4772-4847: the status map, the percentages and p_stats of one Result cell
parse_result_cell(res_sum) == apply_parsed(res_sum, parse_complex_result(res_sum))

-----------------------------------------------------------------------------
(* The overall result classifier and the embryo record of one summary row *)

DigitString == "0123456789"

digit_val(c) == (CHOOSE i \in 1..10 : Ch(DigitString, i) = c) - 1

\* int(s) for a string of digits
RECURSIVE int_of(_)
int_of(s) ==
    IF s = "" THEN 0
    ELSE 10 * int_of(SubSeq(s, 1, Len(s) - 1)) + digit_val(Ch(s, Len(s)))

level_of(mos_match) ==
    IF mos_match.found
    THEN (IF int_of(mos_match.group) >= 50
          THEN "High level mosaic" ELSE "Low level mosaic")
    ELSE "Low level mosaic"

\* the interpretation of a row classified Mosaic (lines 4750-4760)
mosaic_level(result_col) == level_of(re_search_percent(result_col))

\* a chain that looks for the mosaic marker before the QC flag
classify_upper_mosaic_first(qc_status, conclusion_upper, result_upper, result_col) ==
    IF Contains("MOSAIC", conclusion_upper) \/ Contains("MOSAIC", result_upper)
    THEN [result_summary |-> "Mosaic chromosome complement",
          interpretation |-> mosaic_level(result_col)]
    ELSE IF \/ qc_status = "FAIL"
            \/ Contains("INCONCLUSIVE", result_upper)
            \/ Contains("RESEQUENCING", result_upper)
    THEN [result_summary |-> "Inconclusive", interpretation |-> "NA"]
    ELSE IF /\ Contains("LOW", result_upper)
            /\ (Contains("DNA", result_upper) \/ Contains("READS", result_upper))
    THEN [result_summary |-> "Low DNA concentration", interpretation |-> "NA"]
    ELSE IF Contains("CHAOTIC", conclusion_upper) \/ Contains("CHAOTIC", result_upper)
    THEN [result_summary |-> "Multiple chromosomal abnormalities",
          interpretation |-> "Chaotic embryo"]
    ELSE IF \/ Contains("NO COPY NUMBER ABNORMALITY", conclusion_upper)
            \/ conclusion_upper = "EUPLOID"
            \/ result_upper = "EUPLOID"
    THEN [result_summary |-> "Normal chromosome complement", interpretation |-> "NA"]
    ELSE IF Contains("ABNORMAL", conclusion_upper) \/ conclusion_upper = "ABNORMAL"
    THEN [result_summary |-> "Multiple chromosomal abnormalities",
          interpretation |-> "NA"]
    ELSE [result_summary |-> "Normal chromosome complement", interpretation |-> "NA"]

\* the if/elif chain of lines 4732-4768 on the upper-cased texts
classify_upper(qc_status, conclusion_upper, result_upper, result_col) ==
    IF \/ qc_status = "FAIL"
       \/ Contains("INCONCLUSIVE", result_upper)
       \/ Contains("RESEQUENCING", result_upper)
    THEN [result_summary |-> "Inconclusive", interpretation |-> "NA"]
    ELSE IF /\ Contains("LOW", result_upper)
            /\ (Contains("DNA", result_upper) \/ Contains("READS", result_upper))
    THEN [result_summary |-> "Low DNA concentration", interpretation |-> "NA"]
    ELSE IF Contains("CHAOTIC", conclusion_upper) \/ Contains("CHAOTIC", result_upper)
    THEN [result_summary |-> "Multiple chromosomal abnormalities",
          interpretation |-> "Chaotic embryo"]
    ELSE IF \/ Contains("NO COPY NUMBER ABNORMALITY", conclusion_upper)
            \/ conclusion_upper = "EUPLOID"
            \/ result_upper = "EUPLOID"
    THEN [result_summary |-> "Normal chromosome complement", interpretation |-> "NA"]
    ELSE IF Contains("MOSAIC", conclusion_upper) \/ Contains("MOSAIC", result_upper)
    THEN [result_summary |-> "Mosaic chromosome complement",
          interpretation |-> mosaic_level(result_col)]
    ELSE IF Contains("ABNORMAL", conclusion_upper) \/ conclusion_upper = "ABNORMAL"
    THEN [result_summary |-> "Multiple chromosomal abnormalities",
          interpretation |-> "NA"]
    ELSE [result_summary |-> "Normal chromosome complement", interpretation |-> "NA"]

\* result_col.count(',')
RECURSIVE count_char(_, _)
count_char(s, c) ==
    IF s = "" THEN 0
    ELSE (IF Head(s) = c THEN 1 ELSE 0) + count_char(Tail(s), c)

\* abnormal_count of the remaining-abnormal branch (line 4763)
abnormal_count(result_col) ==
    IF Contains(",", result_col) THEN count_char(result_col, ",") + 1 ELSE 1

\* lines 4730-4768: result_summary_val and interp of one row
classify_row(qc_status, conclusion, result_col) ==
    classify_upper(qc_status, upper(conclusion), upper(result_col), result_col)

NullWords == {"nan", "none", "nat", "null", ""}

autosomes_from(autosomes_raw, result_summary_val) ==
    IF lower(autosomes_raw) \in NullWords
    THEN (IF result_summary_val = "Normal chromosome complement"
          THEN "Euploid ( Normal )" ELSE "")
    ELSE IF lower(autosomes_raw) = "normal" THEN "Euploid ( Normal )"
    ELSE autosomes_raw

\* lines 4890-4903
autosomes_of(autosomes_col, result_summary_val) ==
    autosomes_from(strip(autosomes_col), result_summary_val)

\* lines 4907-4915
long_desc_of(result_summary_val) ==
    IF result_summary_val = "Multiple chromosomal abnormalities"
    THEN "The embryo contains abnormal chromosome complement"
    ELSE IF result_summary_val = "Mosaic chromosome complement"
    THEN "The embryo contains mosaic chromosome complement"
    ELSE IF result_summary_val \in {"Inconclusive", "Low DNA concentration"}
    THEN "Inconclusive"
    ELSE "The embryo contains normal chromosome complement"

sex_chr_from(sex_raw) ==
    IF lower(sex_raw) \in NullWords THEN "Normal"
    ELSE IF lower(sex_raw) = "normal" THEN "Normal"
    ELSE "Abnormal"

\* lines 4918-4927
sex_chr_of(sex_col) == sex_chr_from(strip(sex_col))

\* the extraction logic of test_extraction_logic (verify_sex_chr_updates.py
\* 33-42), applied to the SEX cell of one row
extracted_val(sex_raw) ==
    IF sex_raw = "" \/ lower(sex_raw) \in NullWords THEN "Normal"
    ELSE IF lower(sex_raw) = "normal" THEN "Normal"
    ELSE IF lower(sex_raw) = "mosaic" THEN "Mosaic"
    ELSE "Abnormal"

test_extraction_logic(sex_col) == extracted_val(strip(sex_col))

last_piece(pieces) == pieces[Len(pieces)]

embryo_id_from(base_id) ==
    IF Contains("-", base_id) THEN last_piece(split(base_id, "-")) ELSE base_id

\* lines 4722-4723
embryo_id_of(sample_orig) == embryo_id_from(split(sample_orig, "_")[1])

\* lines 4938-4949
embryo_dict(row, verdict, cell) ==
    [embryo_id |-> embryo_id_of(row.Sample_name),
     result_summary |-> verdict.result_summary,
     interpretation |-> verdict.interpretation,
     result_description |-> long_desc_of(verdict.result_summary),
     autosomes |-> autosomes_of(row.AUTOSOMES, verdict.result_summary),
     sex_chromosomes |-> sex_chr_of(row.SEX),
     mtcopy |-> row.MTcopy,
     chromosome_statuses |-> cell.chromosome_statuses,
     mosaic_percentages |-> cell.mosaic_percentages]

\* lines 4721-4949: the dict appended to embryos for a matched summary row
build_embryo(row) ==
    embryo_dict(row, classify_row(upper(row.QC), row.Conclusion, row.Result),
                parse_result_cell(row.Result))

-----------------------------------------------------------------------------
(* Record linkage: the loops of parse_bulk_excel over Details and summary *)

\* re.sub(r'[^A-Z0-9]', '', str(s).upper())
RECURSIVE keep_alnum(_)
keep_alnum(s) ==
    IF s = "" THEN ""
    ELSE (IF IsAlnumUpper(Head(s)) THEN Head(s) ELSE "") \o keep_alnum(Tail(s))

normalize_str(s) == IF s = "" THEN "" ELSE keep_alnum(upper(s))

\* test_bulk_extraction.py 11-41: the normalization of the extraction test
prefixes ==
    {"MRS.", "MR.", "SMT.", "DR.", "MS.", "MISS.", "PROF.", "R.", "S.", "K.", "M.",
     "D.", "P.", "A.", "B.", "C.", "G.", "H.", "J.", "L.", "N.", "T.", "V.", "W."}

common_suffixes == {"C", "D", "R", "S", "G", "K", "M", "N", "P", "T", "V", "W"}

\* no element of prefixes is the start of another, so at most one matches
strip_prefix(s) ==
    IF \E px \in prefixes : startswith(s, px)
    THEN strip(SubSeq(s, Len(CHOOSE px \in prefixes : startswith(s, px)) + 1, Len(s)))
    ELSE s

strip_suffix(s) ==
    IF /\ Len(s) > 3
       /\ Contains(Ch(s, Len(s)), UpperLetters)
       /\ ~IsDigit(Ch(s, Len(s) - 1))
       /\ Len(s) - 1 >= 3
       /\ Ch(s, Len(s)) \in common_suffixes
    THEN SubSeq(s, 1, Len(s) - 1)
    ELSE s

normalize_str_enhanced(s) ==
    IF s = "" THEN "" ELSE strip_suffix(keep_alnum(strip_prefix(strip(upper(s)))))

clean_value(s_val, default) ==
    IF lower(s_val) \in {"nan", "none", "nat", "null"} THEN default
    ELSE IF s_val # "" THEN s_val
    ELSE default

\* get_clean_value for a single column that holds val
get_clean_value(val, default) == clean_value(strip_keep_newlines(val), default)

contains_key(norm_sample_id, norm_p_name, norm_s_name) ==
    \/ norm_sample_id # "" /\ Contains(norm_sample_id, norm_s_name)
    \/ norm_p_name # "" /\ Contains(norm_p_name, norm_s_name)

\* lines 4704-4718
row_matches(p_row, row) ==
    contains_key(normalize_str(p_row.Sample_ID),
                 normalize_str(strip(p_row.Patient_Name)),
                 normalize_str(row.Sample_name))

\* the indices of the first i summary rows that p_row matches, in sheet order
RECURSIVE matched_upto(_, _, _)
matched_upto(p_row, df_summary, i) ==
    IF i = 0 THEN <<>>
    ELSE IF row_matches(p_row, df_summary[i])
         THEN Append(matched_upto(p_row, df_summary, i - 1), i)
         ELSE matched_upto(p_row, df_summary, i - 1)

matched_rows(p_row, df_summary) == matched_upto(p_row, df_summary, Len(df_summary))

\* lines 4642-4644: the Details rows the outer loop does not skip
listed(p_row) ==
    strip(p_row.Patient_Name) # "" /\ lower(strip(p_row.Patient_Name)) # "nan"

\* lines 4680-4695 (the fields the loader fills from the identifying columns)
patient_info_of(p_row) ==
    [patient_name |-> strip(p_row.Patient_Name),
     pin |-> get_clean_value(p_row.Sample_ID, ""),
     sample_number |-> ""]

\* lines 4951-4955, rows = the summary rows p_row matched
append_patient(list, p_row, rows, df_summary) ==
    IF listed(p_row) /\ rows # <<>>
    THEN Append(list,
                [patient_info |-> patient_info_of(p_row),
                 embryos |-> [j \in 1..Len(rows) |-> build_embryo(df_summary[rows[j]])],
                 rows |-> rows])
    ELSE list

\* lines 4641-4955: the patients appended to bulk_patient_data_list for the
\* first i Details rows, each with the summary rows it took
RECURSIVE link_upto(_, _, _)
link_upto(df_details, df_summary, i) ==
    IF i = 0 THEN <<>>
    ELSE append_patient(link_upto(df_details, df_summary, i - 1), df_details[i],
                        matched_rows(df_details[i], df_summary), df_summary)

link_patients(df_details, df_summary) ==
    link_upto(df_details, df_summary, Len(df_details))

\* parse_bulk_excel keeps no list of the summary rows that matched nobody
unmatched_list == {}

\* nor of the Details rows that matched no summary row (lines 4951-4970:
\* the status bar and the success message give two counts only)
missed_roster_rows == {}

sheets_present(file) ==
    /\ \E i \in 1..Len(file.sheet_names) : lower(file.sheet_names[i]) = "details"
    /\ \E i \in 1..Len(file.sheet_names) : lower(file.sheet_names[i]) = "summary"

-----------------------------------------------------------------------------
(* The workbooks and rows the model feeds to the loader *)

SummaryRow(name, qc, conclusion, result, autosomes, sex, mt) ==
    [Sample_name |-> name, QC |-> qc, Conclusion |-> conclusion, Result |-> result,
     AUTOSOMES |-> autosomes, SEX |-> sex, MTcopy |-> mt]

RosterPool ==
    {[Patient_Name |-> "Anu", Sample_ID |-> "AND17"],
     [Patient_Name |-> "Anuradha K", Sample_ID |-> "AND25"],
     [Patient_Name |-> "R. Deepa", Sample_ID |-> "nan"],
     [Patient_Name |-> "nan", Sample_ID |-> "AND31"]}

SummaryPool ==
    {SummaryRow("ANURADHAK-E1_L01_R1", "PASS", "Mosaic",
                "del(5)(p15.33q12.3)(~64.50Mb,~57%)",
                "del(5)(p15.33q12.3)(~64.50Mb,~57%)", "Normal", "25"),
     SummaryRow("ANU-E2_L01_R1", "PASS", "Euploid", "nan", "Normal", "Normal", "31"),
     SummaryRow("AND25-3_L02_R1", "PASS", "Abnormal", "-16", "-16", "Abnormal", "18"),
     SummaryRow("RDEEPA-RD1_L02_R1", "FAIL", "nan", "nan", "nan", "nan", "nan"),
     SummaryRow("DEEPA-D1_L02_R1", "PASS", "Euploid", "nan", "Normal", "Normal", "22"),
     SummaryRow("KANNAN-KN1_L01_R1", "PASS", "Euploid", "nan", "Normal", "Normal", "40")}

\* the sequences without repetition of at most n elements of S
InjSeqs(S, n) ==
    UNION {{q \in [1..k -> S] : \A i, j \in 1..k : i # j => q[i] # q[j]} : k \in 0..n}

\* absent: the identifying columns the sheets lack; listable: os.listdir of the
\* workbook's directory succeeds
Workbooks ==
    [sheet_names : {<<"Details", "summary">>},
     details : InjSeqs(RosterPool, MaxRosterRows),
     summary : InjSeqs(SummaryPool, MaxResultRows),
     absent : {{}}, listable : {TRUE}]
    \cup
    [sheet_names : {<<"Sheet1", "summary">>}, details : {<<>>}, summary : {<<>>},
     absent : {{}}, listable : {TRUE}]

\* an event as the lab writes it: kind(chr)(band)(~size Mb,<qsep>pct%) or <sign>chr
EventDescs ==
    [kind : {"del", "dup", "mos"}, chr : {"5", "18"}, band : {"", "p15.33q12.3"},
     size : {"", "64.50"}, pct : {"", "57"}, qsep : {"~"}]

ExampleDescs ==
    {[kind |-> "del", chr |-> "10", band |-> "q22.3q24.1", size |-> "17.50",
      pct |-> "", qsep |-> "~"],
     [kind |-> "dup", chr |-> "18", band |-> "", size |-> "", pct |-> "30",
      qsep |-> "~"]}

QualifierDescs ==
    [kind : {"del"}, chr : {"5"}, band : {"p15.33q12.3"}, size : {"64.50"},
     pct : {"57"}, qsep : {"-", "mos "}]

SignDescs ==
    [kind : {"+", "-"}, chr : {"16", "22"}, band : {""}, size : {""},
     pct : {"", "51"}, qsep : {"~"}]

HeadPool == EventDescs \cup ExampleDescs \cup QualifierDescs \cup SignDescs

TailPool ==
    {[kind |-> "dup", chr |-> "5", band |-> "", size |-> "", pct |-> "", qsep |-> "~"],
     [kind |-> "del", chr |-> "18", band |-> "q22.3q24.1", size |-> "17.50",
      pct |-> "", qsep |-> "~"],
     [kind |-> "mos", chr |-> "5", band |-> "", size |-> "", pct |-> "30", qsep |-> "~"],
     [kind |-> "+", chr |-> "22", band |-> "", size |-> "", pct |-> "51", qsep |-> "~"],
     [kind |-> "-", chr |-> "16", band |-> "", size |-> "", pct |-> "", qsep |-> "~"]}

IsSign(d) == d.kind \in {"+", "-"}

RenderQualifier(d) ==
    IF d.size # "" /\ d.pct # ""
    THEN "(~" \o d.size \o "Mb," \o d.qsep \o d.pct \o "%)"
    ELSE IF d.size # "" THEN "(~" \o d.size \o "Mb)"
    ELSE IF d.pct # "" THEN "(" \o d.qsep \o d.pct \o "%)"
    ELSE ""

RenderClause(d) ==
    IF IsSign(d) THEN d.kind \o d.chr \o RenderQualifier(d)
    ELSE d.kind \o "(" \o d.chr \o ")"
         \o (IF d.band # "" THEN "(" \o d.band \o ")" ELSE "")
         \o RenderQualifier(d)

RECURSIVE RenderResult(_)
RenderResult(ds) ==
    IF ds = <<>> THEN ""
    ELSE IF Len(ds) = 1 THEN RenderClause(ds[1])
    ELSE RenderClause(ds[1]) \o "," \o RenderResult(Tail(ds))

ClauseLists ==
    {<<h>> \o t : h \in HeadPool,
                  t \in UNION {[1..k -> TailPool] : k \in 0..(MaxClauses - 1)}}

\* Result cells that are not event lists
RawResults ==
    {"nan", "", "Normal", "Monosomy-5", "L-5,6", "Trisomy-21", "Trisomy 21",
     "gain(7)", "Loss-5,dup"}

Idle == [done |-> FALSE]

IdleRow == SummaryRow("", "", "", "", "", "", "")

IdleFile == [sheet_names |-> <<>>, details |-> <<>>, summary |-> <<>>,
             absent |-> {}, listable |-> TRUE]

\* the placeholder label shown before a patient is selected
Placeholder == [shown |-> FALSE]

\* no ReportGeneratorWorker was created yet
NoWorker ==
    [phase |-> "none", patient_data_list |-> <<>>, generate_pdf |-> FALSE,
     generate_docx |-> FALSE, idx |-> 0, success_reports |-> <<>>,
     failed_reports |-> <<>>, finished |-> 0]

NoEmbryo == [embryo_id |-> ""]

-----------------------------------------------------------------------------
(* The loader *)

\* lines 4957-4970: linked is what the loops collected
install_batch(linked) ==
    /\ bulk_patient_data_list' =
           [i \in 1..Len(linked) |->
               [patient_info |-> linked[i].patient_info,
                embryos |-> linked[i].embryos]]
    /\ attached' = [i \in 1..Len(linked) |-> linked[i].rows]
    /\ batch_list_widget' =
           [i \in 1..Len(linked) |->
               [patient_name |-> linked[i].patient_info.patient_name,
                e_count |-> Len(linked[i].embryos),
                data |-> i - 1]]
    /\ message' = "Success"

\* the rows iterrows() gives the two loops: a column the sheet lacks reads
\* as the default passed to .get() (lines 4642, 4705, 4710)
details_rows(file) ==
    [i \in 1..Len(file.details) |->
        [Patient_Name |-> IF "Patient Name" \in file.absent THEN ""
                          ELSE file.details[i].Patient_Name,
         Sample_ID |-> IF "Sample ID" \in file.absent THEN ""
                       ELSE file.details[i].Sample_ID]]

summary_rows(file) ==
    [i \in 1..Len(file.summary) |->
        IF "Sample name" \in file.absent
        THEN [file.summary[i] EXCEPT !.Sample_name = ""]
        ELSE file.summary[i]]

\* os.listdir(file_dir) of line 4933 raises at the first matched row
listdir_raises(file) ==
    /\ ~file.listable
    /\ link_patients(details_rows(file), summary_rows(file)) # <<>>

\* parse_bulk_excel(file_path), lines 4605-4975
parse_bulk_excel(file) ==
    IF ~sheets_present(file)
    THEN /\ message' = "Invalid Format"
         /\ UNCHANGED <<bulk_patient_data_list, batch_list_widget, attached>>
    ELSE IF listdir_raises(file)
    THEN /\ bulk_patient_data_list' = <<>>
         /\ attached' = <<>>
         /\ message' = "Parse Error"
         /\ UNCHANGED batch_list_widget
    ELSE install_batch(link_patients(details_rows(file), summary_rows(file)))

\* parse_bulk_excel(file_path) on the workbook chosen in browse_bulk_file
ParseBulkExcel ==
    /\ disk_file # IdleFile
    /\ parse_bulk_excel(disk_file)
    /\ UNCHANGED <<disk_file, s_row, clauses, row_out>>
    /\ UNCHANGED render_vars
    /\ UNCHANGED gui_vars

-----------------------------------------------------------------------------
(* The embryo section of the manual entry form *)

\* the maximum of embryo_count_spin (line 509), tested again by
\* copy_last_embryo (line 1356)
MaxEmbryoCount == 20

\* f"PS{r+1}" for r in range(count)
EmbryoIds ==
    <<"PS1", "PS2", "PS3", "PS4", "PS5", "PS6", "PS7", "PS8", "PS9", "PS10",
      "PS11", "PS12", "PS13", "PS14", "PS15", "PS16", "PS17", "PS18", "PS19",
      "PS20">>

\* the items of a chromosome status combo (line 960)
ManualStatusItems == {"N", "G", "L", "SG", "SL", "M", "MG", "ML", "SMG", "SML"}

\* QComboBox.setCurrentText on a combo box that is not editable: the item
\* with that text becomes current, any other text changes nothing
set_current_text(items, current, text) ==
    IF text \in items THEN text ELSE current

\* the cells update_embryo_forms puts into row r of summary_table when they
\* are missing (lines 821-853), r counted from 0
default_row(r) ==
    [item_id |-> EmbryoIds[r + 1],
     result_summary |-> "Normal chromosome complement",
     interpretation |-> "NA",
     mtcopy |-> "NA"]

\* create_embryo_form (lines 872-970): the widgets of a new detail form
create_embryo_form(embryo_num) ==
    [result_description |-> "The embryo contains normal chromosome complement",
     autosomes |-> "",
     sex_chromosomes |-> "Normal",
     chr_inputs |-> [ch \in ChromKeys |-> [status |-> "N", mosaic |-> ""]]]

\* update_embryo_forms(count), lines 809-870: setRowCount keeps the rows that
\* stay, the missing cells get their defaults, and every detail form is
\* deleted and created again
update_embryo_forms(form, count) ==
    [form EXCEPT
        !.summary_table =
            [r \in 1..count |->
                IF r <= Len(form.summary_table) THEN form.summary_table[r]
                ELSE default_row(r - 1)],
        !.embryo_forms = [i \in 1..count |-> create_embryo_form(i)]]

\* the form after init_ui: setValue(1) of line 510 and update_embryo_forms(1)
\* of line 659
NewManualForm ==
    update_embryo_forms(
        [embryo_count_spin |-> 1, summary_table |-> <<>>, embryo_forms |-> <<>>],
        1)

\* the mosaic inputs that hold text (lines 1701-1703)
mosaic_typed(chr_inputs) ==
    [ch \in {c \in ChromKeys : chr_inputs[c].mosaic # ""} |->
        chr_inputs[ch].mosaic]

\* the embryo of row i in get_manual_data_dict (lines 1661-1726), i from 1
manual_embryo(form, i) ==
    IF i <= Len(form.embryo_forms)
    THEN [embryo_id |-> form.summary_table[i].item_id,
          result_summary |-> form.summary_table[i].result_summary,
          interpretation |-> form.summary_table[i].interpretation,
          mtcopy |-> form.summary_table[i].mtcopy,
          result_description |-> form.embryo_forms[i].result_description,
          autosomes |-> form.embryo_forms[i].autosomes,
          sex_chromosomes |-> form.embryo_forms[i].sex_chromosomes,
          chromosome_statuses |->
              [ch \in ChromKeys |-> form.embryo_forms[i].chr_inputs[ch].status],
          mosaic_percentages |-> mosaic_typed(form.embryo_forms[i].chr_inputs)]
    ELSE [embryo_id |-> form.summary_table[i].item_id,
          result_summary |-> form.summary_table[i].result_summary,
          interpretation |-> form.summary_table[i].interpretation,
          mtcopy |-> form.summary_table[i].mtcopy,
          result_description |-> "",
          autosomes |-> "",
          sex_chromosomes |-> "",
          chromosome_statuses |-> EmptyDict,
          mosaic_percentages |-> EmptyDict]

\* current_data['embryos'] of get_manual_data_dict
manual_embryos(form) ==
    [i \in 1..Len(form.summary_table) |-> manual_embryo(form, i)]

\* the previews before any was generated: update_embryo_forms(1) of line 659
\* sets the items of the first row, itemChanged is connected to
\* update_preview (line 819), which starts the debounce timer
NoPreview ==
    /\ manual_form = NewManualForm
    /\ preview_timer = TRUE
    /\ preview_worker = <<>>
    /\ pdf_document = <<>>
    /\ batch_preview_timer = FALSE
    /\ batch_preview_worker = <<>>
    /\ batch_pdf_document = <<>>
    /\ temp_files = EmptyDict
    /\ queued = <<>>

\* lines 219 and 576-579
NoGeneration ==
    /\ current_patient_data = <<>>
    /\ format_checks = [pdf |-> TRUE, docx |-> TRUE]
    /\ worker = NoWorker
    /\ written = {}

NoBatchEditor ==
    /\ current_batch_index = <<>>
    /\ batch_editor = Placeholder
    /\ draft_file = <<>>
    /\ uncaught = "none"
    /\ NoGeneration
    /\ NoPreview

Init ==
    /\ NoBatchEditor
    /\ disk_file \in Workbooks
    /\ bulk_patient_data_list = <<>>
    /\ batch_list_widget = <<>>
    /\ attached = <<>>
    /\ message = "none"
    /\ s_row = IdleRow
    /\ clauses = <<>>
    /\ row_out = Idle
    /\ embryo_data = NoEmbryo
    /\ pdf_page = Idle
    /\ docx_page = Idle
    /\ auto_call = Idle

Next == ParseBulkExcel

Spec == Init /\ [][Next]_vars

-----------------------------------------------------------------------------
(* One summary row through the per-row code of the loader *)

\* the body of `if match:` applied to s_row
ProcessRow ==
    /\ ~row_out.done
    /\ s_row # IdleRow
    /\ row_out' = [done |-> TRUE,
                   embryo |-> build_embryo(s_row),
                   parts |-> re_split_events(s_row.Result, 1, 1),
                   main |-> parse_complex_result(s_row.Result).c_map,
                   p_stats |-> parse_result_cell(s_row.Result).p_stats]
    /\ UNCHANGED <<disk_file, bulk_patient_data_list, batch_list_widget, message,
                   attached, s_row, clauses>>
    /\ UNCHANGED render_vars
    /\ UNCHANGED gui_vars

NextRow == ProcessRow

InitIdleApp ==
    /\ NoBatchEditor
    /\ disk_file = IdleFile
    /\ bulk_patient_data_list = <<>>
    /\ batch_list_widget = <<>>
    /\ attached = <<>>
    /\ message = "none"
    /\ row_out = Idle

NoReport ==
    /\ embryo_data = NoEmbryo
    /\ pdf_page = Idle
    /\ docx_page = Idle
    /\ auto_call = Idle

InitNotation ==
    /\ NoReport
    /\ InitIdleApp
    /\ \/ /\ clauses \in ClauseLists
          /\ s_row = SummaryRow("ANU-E2_L01_R1", "PASS", "Abnormal",
                                RenderResult(clauses), "nan", "nan", "nan")
       \/ /\ clauses = <<>>
          /\ \E r \in RawResults :
                s_row = SummaryRow("ANU-E2_L01_R1", "PASS", "Abnormal", r,
                                   "nan", "nan", "nan")

SpecNotation == InitNotation /\ [][NextRow]_vars

ClassifyResults ==
    {"nan", "-16", "dup(18)(~30%)", "del(5)(p15.33q12.3)(~64.50Mb,~57%)",
     "Mosaic +22(~51%)", "Low DNA", "Resequencing", "Chaotic", "Euploid", "+5,+6,-16",
     "dup(1)(~30%),dup(2)(~30%),dup(3)(~30%)"}

ClassifyConclusions ==
    {"nan", "Euploid", "No copy number abnormality detected", "Mosaic",
     "Abnormal", "Aneuploid", "Chaotic", "Inconclusive"}

InitClassify ==
    /\ InitIdleApp
    /\ NoReport
    /\ clauses = <<>>
    /\ \E qc \in {"PASS", "FAIL", "Fail"}, c \in ClassifyConclusions,
          r \in ClassifyResults :
            s_row = SummaryRow("ANU-E2_L01_R1", qc, c, r, "nan", "nan", "nan")

SpecClassify == InitClassify /\ [][NextRow]_vars

-----------------------------------------------------------------------------
(* One clause through the body of `for part in parts` *)

NoMaps == [c_map |-> EmptyDict, m_map |-> EmptyDict]

\* lines 4785-4828 for the part that is the clause the lab wrote
ClassifyPart ==
    /\ ~row_out.done
    /\ s_row = IdleRow
    /\ Len(clauses) = 1
    /\ row_out' = [done |-> TRUE,
                   part |-> RenderClause(clauses[1]),
                   maps |-> parse_part(NoMaps, RenderClause(clauses[1]))]
    /\ UNCHANGED <<disk_file, bulk_patient_data_list, batch_list_widget, message,
                   attached, s_row, clauses>>
    /\ UNCHANGED render_vars
    /\ UNCHANGED gui_vars

NextClause == ClassifyPart

InitClause ==
    /\ InitIdleApp
    /\ NoReport
    /\ s_row = IdleRow
    /\ \E d \in HeadPool : clauses = <<d>>

SpecClause == InitClause /\ [][NextClause]_vars

-----------------------------------------------------------------------------
(* The report generators: pgta_template.py (PDF), pgta_docx_generator.py (DOCX) *)

any_in(keywords, s) == \E kw \in keywords : Contains(kw, s)

red_keywords ==
    {"MONOSOMY", "TRISOMY", "SEGMENTAL GAIN", "SEGMENTAL LOSS",
     "MULTIPLE CHROMOSOMAL ABNORMALITIES", "ANEUPLOID", "CHAOTIC EMBRYO"}

blue_keywords ==
    {"MOSAIC CHROMOSOME COMPLEMENT", "LOW LEVEL MOSAIC", "HIGH LEVEL MOSAIC",
     "COMPLEX MOSAIC", "MULTIPLE MOSAIC"}

\* PGTAReportTemplate._get_result_color on the upper-cased texts
result_color_upper(res_up, int_up) ==
    IF Contains("EUPLOID", int_up) /\ ~Contains("ANEUPLOID", int_up) THEN "black"
    ELSE IF any_in(red_keywords, res_up) \/ any_in(red_keywords, int_up) THEN "red"
    ELSE IF any_in(blue_keywords, res_up) \/ any_in(blue_keywords, int_up) THEN "blue"
    ELSE "black"

get_result_color(result_text, interpretation_text) ==
    result_color_upper(upper(result_text), upper(interpretation_text))

\* PGTADocxGenerator._get_result_color_hex on the upper-cased texts
result_color_hex_upper(res_up, int_up) ==
    IF any_in(red_keywords, res_up) \/ any_in(red_keywords, int_up) THEN "#FF0000"
    ELSE IF any_in(blue_keywords, res_up) \/ any_in(blue_keywords, int_up) THEN "#0000FF"
    ELSE "None"

get_result_color_hex(result_text, interpretation_text) ==
    result_color_hex_upper(upper(result_text), upper(interpretation_text))

red_codes == {"G", "L", "SG", "SL"}

blue_codes == {"M", "MG", "ML", "SMG", "SML"}

\* float(s) > 0 for the texts a status cell holds: digits with at most one
\* point; float() raises on every other text of the model
float_positive(s) ==
    /\ s # ""
    /\ \A i \in 1..Len(s) : IsDigit(Ch(s, i)) \/ Ch(s, i) = "."
    /\ Cardinality({i \in 1..Len(s) : Ch(s, i) = "."}) <= 1
    /\ \E i \in 1..Len(s) : IsDigit(Ch(s, i)) /\ Ch(s, i) # "0"

status_color_stripped(s) ==
    IF s \in red_codes THEN "red"
    ELSE IF s \in blue_codes THEN "blue"
    ELSE IF float_positive(remove_char(s, "%")) THEN "blue"
    ELSE "black"

\* PGTAReportTemplate._get_status_color
get_status_color(status) ==
    IF status = "" THEN "black" ELSE status_color_stripped(strip(upper(status)))

\* a DOCX status color that forgets the segmental mosaic codes
status_color_hex_no_segmental(s) ==
    IF s \in red_codes THEN "#FF0000"
    ELSE IF s \in {"M", "MG", "ML"} THEN "#0000FF"
    ELSE IF float_positive(remove_char(s, "%")) THEN "#0000FF"
    ELSE "None"

status_color_hex_stripped(s) ==
    IF s \in red_codes THEN "#FF0000"
    ELSE IF s \in blue_codes THEN "#0000FF"
    ELSE IF float_positive(remove_char(s, "%")) THEN "#0000FF"
    ELSE "None"

\* PGTADocxGenerator._get_status_color_hex
get_status_color_hex(status) ==
    IF status = "" THEN "None" ELSE status_color_hex_stripped(strip(upper(status)))

\* the color of a DOCX run: font.color.rgb is set only when a color was
\* returned, otherwise the run keeps the default black
run_color(color) ==
    IF color = "#FF0000" THEN "red" ELSE IF color = "#0000FF" THEN "blue" ELSE "black"

\* PGTAReportTemplate._clean
template_clean_stripped(s, default) == IF lower(s) = "nan" THEN default ELSE s

template_clean(val, default) == template_clean_stripped(strip(val), default)

red_autosome_marks ==
    {"DEL(", "DUP(", "-", "+", "STATUS L", "STATUS G", "STATUS SL", "STATUS SG",
     " SL", " SG", " L,", " G,", " L ", " G "}

endswith(s, suffix) ==
    Len(s) >= Len(suffix) /\ SubSeq(s, Len(s) - Len(suffix) + 1, Len(s)) = suffix

\* the autosomes color of _build_embryo_page (pgta_template.py 720-737)
auto_color_upper(autosomes_text, auto_upper) ==
    IF \/ Contains("NORMAL", auto_upper)
       \/ Contains("EUPLOID", auto_upper)
       \/ strip(autosomes_text) = ""
    THEN "black"
    ELSE IF Contains("%", autosomes_text) THEN "blue"
    ELSE IF \/ any_in(red_autosome_marks, auto_upper)
            \/ endswith(auto_upper, " L")
            \/ endswith(auto_upper, " G")
    THEN "red"
    ELSE IF Contains("CNV STATUS", auto_upper) THEN "red"
    ELSE "black"

auto_color_pdf(autosomes_text) == auto_color_upper(autosomes_text, upper(autosomes_text))

\* the sex chromosome color of _build_embryo_page (pgta_template.py 739-744)
sex_color_pdf(sex_text) ==
    IF Contains("ABNORMAL", upper(sex_text)) THEN "red"
    ELSE IF Contains("MOSAIC", upper(sex_text)) THEN "blue"
    ELSE "black"

\* chr_statuses.get(str(i), 'N')
status_get(chr_statuses, ch) ==
    IF ch \in DOMAIN chr_statuses THEN chr_statuses[ch] ELSE "N"

\* generate_pdf skips the embryo page of a Low DNA embryo (lines 343-345)
low_dna_skip(e) ==
    \/ Contains("LOW DNA", upper(e.interpretation))
    \/ Contains("LOW DNA", upper(e.result_summary))

\* the MTcopy cell of _create_results_summary_table and the MTcopy line of
\* _build_embryo_page (pgta_template.py 566-568, 746-749)
pdf_mtcopy(e) ==
    IF upper(template_clean(e.interpretation, "")) # "EUPLOID" THEN "NA"
    ELSE IF "mtcopy" \in DOMAIN e THEN template_clean(e.mtcopy, "NA")
    ELSE "NA"

\* the MTcopy cell of _add_cover_page and the MTcopy line of _add_embryo_page
\* (pgta_docx_generator.py 238-243, 447-450)
docx_mtcopy(e) ==
    IF upper(e.interpretation) # "EUPLOID" THEN "NA"
    ELSE IF "mtcopy" \in DOMAIN e THEN e.mtcopy
    ELSE "NA"

\* colors of the row of _create_results_summary_table and of the texts of
\* _build_embryo_page and _create_cnv_table for one embryo
pdf_colors(e) ==
    [done |-> TRUE,
     mtcopy |-> pdf_mtcopy(e),
     has_page |-> ~low_dna_skip(e),
     summary |-> get_result_color(template_clean(e.result_summary, ""),
                                  template_clean(e.interpretation, "")),
     result |-> "black",
     autosomes |-> auto_color_pdf(template_clean(e.autosomes, "")),
     sex |-> sex_color_pdf(template_clean(e.sex_chromosomes, "")),
     interpretation |-> get_result_color("", template_clean(e.interpretation, "")),
     cnv |-> [ch \in ChromKeys |->
                 get_status_color(status_get(e.chromosome_statuses, ch))]]

\* colors of the row of _add_cover_page and of the texts and the CNV table of
\* _add_embryo_page for one embryo
docx_colors(e) ==
    [done |-> TRUE,
     mtcopy |-> docx_mtcopy(e),
     has_page |-> TRUE,
     summary |-> run_color(get_result_color_hex(e.result_summary, e.interpretation)),
     result |-> run_color("None"),
     autosomes |-> run_color(get_result_color_hex(e.autosomes, "")),
     sex |-> run_color("None"),
     interpretation |-> run_color(get_result_color_hex("", e.interpretation)),
     cnv |-> [ch \in ChromKeys |->
                 run_color(get_status_color_hex(status_get(e.chromosome_statuses, ch)))]]

\* the items of the result summary and interpretation dropdowns
\* (pgta_report_generator.py 5113-5157) and of the status dropdown (5230)
ResultItems ==
    {"Normal chromosome complement", "Multiple chromosomal abnormalities",
     "Mosaic chromosome complement", "Inconclusive", "Low DNA concentration"}

InterpItems ==
    {"NA", "Chaotic embryo", "Low level mosaic", "High level mosaic", "Complex mosaic"}

StatusItems == {"N", "G", "L", "SG", "SL", "M", "MG", "ML", "SMG", "SML", "NA"}

\* texts of the autosomes line and items of the sex chromosome dropdown
AutosomeTexts == {"Euploid ( Normal )", "dup(18)(~30%)", "-16"}

SexItems == {"Normal", "Abnormal"}

\* embryo records as the batch editor saves them (save_batch_edits), with
\* chromosome 1 set from the status dropdown
FormEmbryos ==
    {[embryo_id |-> "E1", result_summary |-> rs, interpretation |-> it,
      autosomes |-> au, sex_chromosomes |-> sx,
      chromosome_statuses |-> [InitialStatuses EXCEPT !["1"] = st]] :
        rs \in ResultItems, it \in InterpItems, au \in AutosomeTexts,
        sx \in SexItems, st \in StatusItems}

GeneratePdf ==
    /\ embryo_data # NoEmbryo
    /\ ~pdf_page.done
    /\ pdf_page' = pdf_colors(embryo_data)
    /\ UNCHANGED <<disk_file, bulk_patient_data_list, batch_list_widget, message,
                   attached, s_row, clauses, row_out, embryo_data, docx_page,
                   auto_call>>
    /\ UNCHANGED gui_vars

GenerateDocx ==
    /\ embryo_data # NoEmbryo
    /\ ~docx_page.done
    /\ docx_page' = docx_colors(embryo_data)
    /\ UNCHANGED <<disk_file, bulk_patient_data_list, batch_list_widget, message,
                   attached, s_row, clauses, row_out, embryo_data, pdf_page,
                   auto_call>>
    /\ UNCHANGED gui_vars

NextRender == GeneratePdf \/ GenerateDocx

InitRender ==
    /\ InitIdleApp
    /\ s_row = IdleRow
    /\ clauses = <<>>
    /\ embryo_data \in FormEmbryos
    /\ pdf_page = Idle
    /\ docx_page = Idle
    /\ auto_call = Idle

SpecRender == InitRender /\ [][NextRender]_vars

-----------------------------------------------------------------------------
(* One summary row from the bulk loader to the two generators *)

\* ReportGeneratorWorker.run hands patient_data['embryos'] of a bulk patient
\* to generate_pdf and generate_docx as the loader built them (lines 173-200)
PassEmbryo ==
    /\ row_out.done
    /\ embryo_data = NoEmbryo
    /\ embryo_data' = row_out.embryo
    /\ UNCHANGED <<disk_file, bulk_patient_data_list, batch_list_widget, message,
                   attached, s_row, clauses, row_out, pdf_page, docx_page,
                   auto_call>>
    /\ UNCHANGED gui_vars

NextBulkReport == ProcessRow \/ PassEmbryo \/ GeneratePdf \/ GenerateDocx

BulkReportResults == {"nan", "-16", "dup(18)(~30%)", "Low DNA"}

\* SEX cells: blank, the three words, and a description of an abnormality
SexCells == {"nan", "Normal", "Mosaic", " mosaic", "Abnormal Gain (45,X)"}

InitBulkReport ==
    /\ InitIdleApp
    /\ NoReport
    /\ clauses = <<>>
    /\ \E qc \in {"PASS", "FAIL"}, c \in ClassifyConclusions,
          r \in BulkReportResults, sx \in SexCells, mt \in {"nan", "31"} :
            s_row = SummaryRow("ANU-E2_L01_R1", qc, c, r, "nan", sx, mt)

SpecBulkReport == InitBulkReport /\ [][NextBulkReport]_vars

-----------------------------------------------------------------------------
(* generate_autosomes_string (pgta_report_generator.py 4850-4886) *)

\* k.isdigit()
isdigit(k) == k # "" /\ \A i \in 1..Len(k) : IsDigit(Ch(k, i))

\* a key function that puts X in front of the numeric chromosomes
sort_key_x_first(k) ==
    IF isdigit(k) THEN int_of(k)
    ELSE IF upper(k) = "X" THEN 0
    ELSE IF upper(k) = "Y" THEN 24
    ELSE 25

sort_key(k) ==
    IF isdigit(k) THEN int_of(k)
    ELSE IF upper(k) = "X" THEN 23
    ELSE IF upper(k) = "Y" THEN 24
    ELSE 25

\* k goes behind every element whose key is not larger: sorted() is stable
RECURSIVE insert_by_key(_, _)
insert_by_key(done, k) ==
    IF done = <<>> THEN <<k>>
    ELSE IF sort_key(Head(done)) <= sort_key(k)
    THEN <<Head(done)>> \o insert_by_key(Tail(done), k)
    ELSE <<k>> \o done

\* sorted(stats.keys(), key=sort_key), keys in insertion order
RECURSIVE sorted_keys(_, _)
sorted_keys(keys, done) ==
    IF keys = <<>> THEN done
    ELSE sorted_keys(Tail(keys), insert_by_key(done, Head(keys)))

\* sep.join(parts)
RECURSIVE join(_, _)
join(parts, sep) ==
    IF parts = <<>> THEN ""
    ELSE IF Len(parts) = 1 THEN parts[1]
    ELSE parts[1] \o sep \o join(Tail(parts), sep)

\* mosaic_map.get(ch, '')
mos_val_of(mosaic_map, ch) == IF ch \in DOMAIN mosaic_map THEN mosaic_map[ch] ELSE ""

verbose_part(ch, st, mos_val) ==
    IF mos_val # ""
    THEN ch \o " chromosome, CNV status " \o st \o ", Mosaic(%) " \o mos_val
    ELSE ch \o " chromosome, CNV status " \o st

autosome_parts(sorted_chrs, stats, mosaic_map) ==
    [i \in 1..Len(sorted_chrs) |->
        IF Len(sorted_chrs) > 1
        THEN sorted_chrs[i] \o " " \o stats[sorted_chrs[i]]
        ELSE verbose_part(sorted_chrs[i], stats[sorted_chrs[i]],
                          mos_val_of(mosaic_map, sorted_chrs[i]))]

\* stats is a dict: its keys in insertion order and its mapping
generate_autosomes_string(order, stats, mosaic_map) ==
    IF order = <<>> THEN "Normal"
    ELSE join(autosome_parts(sorted_keys(order, <<>>), stats, mosaic_map), ", ")

\* chromosome keys and the (status, percentage) pairs given to them
StatKeys == {"1", "2", "11", "X", "x", "Y"}

StatValues == {<<"SG", "">>, <<"MG", "30">>}

StatCalls ==
    {[order |-> o, stats |-> [k \in Range(o) |-> v[k][1]],
      mosaic_map |-> [k \in {c \in Range(o) : v[c][2] # ""} |-> v[k][2]]] :
        o \in InjSeqs(StatKeys, MaxStats), v \in [StatKeys -> StatValues]}

CallGenerateAutosomesString ==
    /\ ~auto_call.done
    /\ "order" \in DOMAIN auto_call
    /\ auto_call' = [auto_call EXCEPT
                        !.done = TRUE,
                        !.result = generate_autosomes_string(auto_call.order,
                                        auto_call.stats, auto_call.mosaic_map)]
    /\ UNCHANGED <<disk_file, bulk_patient_data_list, batch_list_widget, message,
                   attached, s_row, clauses, row_out, embryo_data, pdf_page,
                   docx_page>>
    /\ UNCHANGED gui_vars

NextAutosomes == CallGenerateAutosomesString

InitAutosomes ==
    /\ InitIdleApp
    /\ s_row = IdleRow
    /\ clauses = <<>>
    /\ embryo_data = NoEmbryo
    /\ pdf_page = Idle
    /\ docx_page = Idle
    /\ \E c \in StatCalls :
          auto_call = [done |-> FALSE, order |-> c.order, stats |-> c.stats,
                       mosaic_map |-> c.mosaic_map, result |-> ""]

SpecAutosomes == InitAutosomes /\ [][NextAutosomes]_vars

-----------------------------------------------------------------------------
(* The batch tab: loading, selecting a patient, editing, saving, drafts *)

Anu == [Patient_Name |-> "Anu", Sample_ID |-> "AND17"]
AnuradhaK == [Patient_Name |-> "Anuradha K", Sample_ID |-> "AND25"]
RDeepa == [Patient_Name |-> "R. Deepa", Sample_ID |-> "nan"]

AnuE2 == SummaryRow("ANU-E2_L01_R1", "PASS", "Euploid", "nan", "Normal", "Normal", "31")
And25 == SummaryRow("AND25-3_L02_R1", "PASS", "Abnormal", "-16", "-16", "Abnormal", "18")
RDeepaRD1 == SummaryRow("RDEEPA-RD1_L02_R1", "FAIL", "nan", "nan", "nan", "nan", "nan")

RunA ==
    [sheet_names |-> <<"Details", "summary">>, details |-> <<Anu>>,
     summary |-> <<AnuE2>>, absent |-> {}, listable |-> TRUE]

RunB ==
    [sheet_names |-> <<"Details", "summary">>, details |-> <<AnuradhaK, RDeepa>>,
     summary |-> <<And25, RDeepaRD1>>, absent |-> {}, listable |-> TRUE]

\* the workbooks of the batch tab: two well-formed runs, a run without the
\* Details sheet, runs without an identifying column, a run in a directory
\* that cannot be listed
BatchBooks ==
    {RunA, RunB,
     [RunA EXCEPT !.sheet_names = <<"Sheet1", "summary">>],
     [RunA EXCEPT !.absent = {"Patient Name"}],
     [RunB EXCEPT !.absent = {"Sample name"}],
     [RunB EXCEPT !.listable = FALSE]}

\* browse_and_parse_bulk_file (lines 4588-4603)
BrowseAndParseBulkFile ==
    /\ uncaught = "none"
    /\ \E file \in BatchBooks :
          /\ disk_file' = file
          /\ parse_bulk_excel(file)
    /\ UNCHANGED <<s_row, clauses, row_out>>
    /\ UNCHANGED render_vars
    /\ UNCHANGED gui_vars

\* the status combo and the mosaic input of one chromosome (lines 5209-5243)
chr_inputs_of(chr_statuses, mosaic_percentages) ==
    [ch \in ChromKeys |->
        [status |-> status_get(chr_statuses, ch),
         mosaic |-> IF ch \in DOMAIN mosaic_percentages
                    THEN mosaic_percentages[ch] ELSE ""]]

\* the widgets made for one embryo (lines 5103-5257)
embryo_editor_of(embryo) ==
    [embryo_id |-> embryo.embryo_id,
     result_summary |-> embryo.result_summary,
     result_description |-> embryo.result_description,
     autosomes |-> embryo.autosomes,
     sex_chromosomes |-> embryo.sex_chromosomes,
     interpretation |-> embryo.interpretation,
     mtcopy |-> embryo.mtcopy,
     chr_inputs |-> chr_inputs_of(embryo.chromosome_statuses,
                                  embryo.mosaic_percentages)]

\* the editor built for the selected patient (lines 5010-5257)
editor_of(data) ==
    [shown |-> TRUE,
     batch_patient_name |-> data.patient_info.patient_name,
     batch_pin |-> data.patient_info.pin,
     batch_sample_number |-> data.patient_info.sample_number,
     batch_embryo_editors |->
         [i \in 1..Len(data.embryos) |-> embryo_editor_of(data.embryos[i])]]

\* on_batch_selection_changed for the k-th item of the list (lines 4991-5289)
select_item(idx) ==
    IF idx >= Len(bulk_patient_data_list)
    THEN UNCHANGED <<current_batch_index, batch_editor, batch_preview_timer>>
    ELSE /\ current_batch_index' = <<idx>>
         /\ batch_editor' = editor_of(bulk_patient_data_list[idx + 1])
         /\ batch_preview_timer' = TRUE

OnBatchSelectionChanged ==
    /\ uncaught = "none"
    /\ \E k \in 1..Len(batch_list_widget) : select_item(batch_list_widget[k].data)
    /\ UNCHANGED <<disk_file, bulk_patient_data_list, batch_list_widget, message,
                   attached, s_row, clauses, row_out, draft_file, uncaught>>
    /\ UNCHANGED render_vars
    /\ UNCHANGED <<manual_vars, batch_preview_worker, batch_pdf_document,
                   temp_files, queued>>
    /\ UNCHANGED report_vars

\* the sample numbers typed into the editor (the loader leaves the field empty)
SampleNumbers == {"2401"}

\* the user types into batch_sample_number; its textChanged is connected to
\* update_batch_preview (lines 5046-5047 and 5390-5402)
EditBatchSampleNumber ==
    /\ uncaught = "none"
    /\ batch_editor.shown
    /\ \E t \in SampleNumbers :
          batch_editor' = [batch_editor EXCEPT !.batch_sample_number = t]
    /\ batch_preview_timer' = TRUE
    /\ UNCHANGED <<disk_file, bulk_patient_data_list, batch_list_widget, message,
                   attached, s_row, clauses, row_out, current_batch_index,
                   draft_file, uncaught>>
    /\ UNCHANGED render_vars
    /\ UNCHANGED <<manual_vars, batch_preview_worker, batch_pdf_document,
                   temp_files, queued>>
    /\ UNCHANGED report_vars

\* clean of save_batch_edits (lines 5296-5299)
clean_stripped(s) == IF lower(s) = "nan" THEN "" ELSE s

clean(val) == clean_stripped(strip_keep_newlines(val))

\* lines 5322-5337
saved_embryo(embryo, editor) ==
    [embryo EXCEPT
        !.embryo_id = editor.embryo_id,
        !.result_summary = editor.result_summary,
        !.result_description = editor.result_description,
        !.autosomes = editor.autosomes,
        !.sex_chromosomes = editor.sex_chromosomes,
        !.interpretation = editor.interpretation,
        !.mtcopy = editor.mtcopy,
        !.chromosome_statuses =
            dict_update(@, [ch \in ChromKeys |-> editor.chr_inputs[ch].status]),
        !.mosaic_percentages =
            dict_update(@, [ch \in ChromKeys |-> editor.chr_inputs[ch].mosaic])]

\* lines 5304-5337: the record after the editor was written into it
saved_record(data, editor) ==
    [patient_info |->
        [data.patient_info EXCEPT
            !.patient_name = clean(editor.batch_patient_name),
            !.pin = clean(editor.batch_pin),
            !.sample_number = clean(editor.batch_sample_number)],
     embryos |->
        [i \in 1..Len(data.embryos) |->
            IF i <= Len(editor.batch_embryo_editors)
            THEN saved_embryo(data.embryos[i], editor.batch_embryo_editors[i])
            ELSE data.embryos[i]]]

\* save_batch_edits (lines 5291-5340); data = self.bulk_patient_data_list[idx]
\* raises IndexError when the list is shorter than the index
SaveBatchEdits ==
    /\ uncaught = "none"
    /\ current_batch_index # <<>>
    /\ IF current_batch_index[1] >= Len(bulk_patient_data_list)
       THEN /\ uncaught' = "IndexError"
            /\ UNCHANGED <<bulk_patient_data_list, message>>
       ELSE /\ bulk_patient_data_list' =
                   [bulk_patient_data_list EXCEPT
                       ![current_batch_index[1] + 1] = saved_record(@, batch_editor)]
            /\ message' = "Saved"
            /\ UNCHANGED uncaught
    /\ UNCHANGED <<disk_file, batch_list_widget, attached, s_row, clauses, row_out,
                   current_batch_index, batch_editor, draft_file>>
    /\ UNCHANGED render_vars
    /\ UNCHANGED preview_vars
    /\ UNCHANGED report_vars

\* save_bulk_draft (lines 5573-5586)
SaveBulkDraft ==
    /\ uncaught = "none"
    /\ bulk_patient_data_list # <<>>
    /\ draft_file' = bulk_patient_data_list
    /\ message' = "Batch draft saved"
    /\ UNCHANGED <<disk_file, bulk_patient_data_list, batch_list_widget, attached,
                   s_row, clauses, row_out, current_batch_index, batch_editor,
                   uncaught>>
    /\ UNCHANGED render_vars
    /\ UNCHANGED preview_vars
    /\ UNCHANGED report_vars

\* load_bulk_draft (lines 5588-5608) on the draft written before
LoadBulkDraft ==
    /\ uncaught = "none"
    /\ draft_file # <<>>
    /\ bulk_patient_data_list' = draft_file
    /\ attached' = [i \in 1..Len(draft_file) |-> <<>>]
    /\ batch_list_widget' =
           [i \in 1..Len(draft_file) |->
               [patient_name |-> draft_file[i].patient_info.patient_name,
                e_count |-> Len(draft_file[i].embryos),
                data |-> i - 1]]
    /\ message' = "Loaded draft"
    /\ UNCHANGED <<disk_file, s_row, clauses, row_out, current_batch_index,
                   batch_editor, draft_file, uncaught>>
    /\ UNCHANGED render_vars
    /\ UNCHANGED preview_vars
    /\ UNCHANGED report_vars

NextBatch ==
    \/ BrowseAndParseBulkFile
    \/ OnBatchSelectionChanged
    \/ EditBatchSampleNumber
    \/ SaveBatchEdits
    \/ SaveBulkDraft
    \/ LoadBulkDraft

InitBatch ==
    /\ InitIdleApp
    /\ NoReport
    /\ s_row = IdleRow
    /\ clauses = <<>>

SpecBatch == InitBatch /\ [][NextBatch]_vars

-----------------------------------------------------------------------------
(* Report generation: generate_reports, ReportGeneratorWorker and           *)
(* generate_single_batch_report                                             *)

\* bulk_patient_data_list as parse_bulk_excel installs it for a workbook
batch_of(file) ==
    [i \in 1..Len(link_patients(details_rows(file), summary_rows(file))) |->
        [patient_info |->
            link_patients(details_rows(file), summary_rows(file))[i].patient_info,
         embryos |->
            link_patients(details_rows(file), summary_rows(file))[i].embryos]]

\* the record after save_batch_edits stored a typed sample number
with_sample_number(list, i, sn) ==
    [list EXCEPT ![i].patient_info.sample_number = clean(sn)]

\* the batches of the bulk tab when Generate is pressed: none, the two runs
\* as loaded, and the second with a sample number filled in
GenerateBatches ==
    {<<>>, batch_of(RunA), batch_of(RunB),
     with_sample_number(batch_of(RunB), 1, "2401")}

\* the dict get_manual_data_dict returns for a one-embryo manual entry
\* (lines 1634-1728)
manual_entry(sample_number) ==
    [patient_info |-> [patient_name |-> "Kavya S", pin |-> "AND40",
                       sample_number |-> clean(sample_number)],
     embryos |-> <<[embryo_id |-> "PS1",
                    result_summary |-> "Normal chromosome complement",
                    interpretation |-> "NA",
                    mtcopy |-> "NA",
                    result_description |->
                        "The embryo contains normal chromosome complement",
                    autosomes |-> "Normal",
                    sex_chromosomes |-> "Normal",
                    chromosome_statuses |-> InitialStatuses,
                    mosaic_percentages |-> EmptyDict]>>]

\* save_manual_data (lines 1730-1736) with the sample number field as typed
SaveManualData ==
    /\ uncaught = "none"
    /\ \E sn \in {"", "2401"} : current_patient_data' = <<manual_entry(sn)>>
    /\ message' = "Success"
    /\ UNCHANGED <<disk_file, bulk_patient_data_list, batch_list_widget, attached,
                   s_row, clauses, row_out, current_batch_index, batch_editor,
                   draft_file, uncaught, format_checks, worker, written>>
    /\ UNCHANGED render_vars
    /\ UNCHANGED preview_vars

\* the user clicks the PDF or the DOCX checkbox
ToggleFormatCheck ==
    /\ uncaught = "none"
    /\ \/ format_checks' = [format_checks EXCEPT !.pdf = ~@]
       \/ format_checks' = [format_checks EXCEPT !.docx = ~@]
    /\ UNCHANGED <<disk_file, bulk_patient_data_list, batch_list_widget, message,
                   attached, s_row, clauses, row_out, current_batch_index,
                   batch_editor, draft_file, uncaught, current_patient_data,
                   worker, written>>
    /\ UNCHANGED render_vars
    /\ UNCHANGED preview_vars

sample_number_of(p) == p.patient_info.sample_number

\* lines 264-271: the list with the manual entry merged in
merge_manual(patient_data_list, manual, current_sn) ==
    IF ~\E i \in 1..Len(patient_data_list) :
           sample_number_of(patient_data_list[i]) = current_sn
    THEN Append(patient_data_list, manual)
    ELSE Append(SelectSeq(patient_data_list,
                          LAMBDA p : sample_number_of(p) # current_sn),
                manual)

\* lines 252-271
collect_patients(bulk, manual_box) ==
    IF manual_box = <<>> THEN bulk
    ELSE merge_manual(bulk, manual_box[1], sample_number_of(manual_box[1]))

\* ReportGeneratorWorker.__init__ (lines 136-143)
new_worker(patient_data_list, checks) ==
    [phase |-> "run", patient_data_list |-> patient_data_list,
     generate_pdf |-> checks.pdf, generate_docx |-> checks.docx, idx |-> 0,
     success_reports |-> <<>>, failed_reports |-> <<>>, finished |-> 0]

\* generate_reports (lines 250-303) with an output directory selected; the
\* Generate button is disabled while a worker runs
GenerateReports ==
    /\ uncaught = "none"
    /\ worker.phase = "none"
    /\ IF collect_patients(bulk_patient_data_list, current_patient_data) = <<>>
          \/ (~format_checks.pdf /\ ~format_checks.docx)
       THEN /\ message' = "Warning"
            /\ UNCHANGED <<worker, written>>
       ELSE /\ worker' = new_worker(collect_patients(bulk_patient_data_list,
                                                     current_patient_data),
                                    format_checks)
            /\ written' = {}
            /\ UNCHANGED message
    /\ UNCHANGED <<disk_file, bulk_patient_data_list, batch_list_widget, attached,
                   s_row, clauses, row_out, current_batch_index, batch_editor,
                   draft_file, uncaught, current_patient_data, format_checks>>
    /\ UNCHANGED render_vars
    /\ UNCHANGED preview_vars

RECURSIVE replace_char(_, _, _)
\* s.replace(c, d) for one-character c
replace_char(s, c, d) ==
    IF s = "" THEN ""
    ELSE (IF Head(s) = c THEN d ELSE Head(s)) \o replace_char(Tail(s), c, d)

\* datetime.now().strftime('%Y%m%d_%H%M%S'); the clock stands still in a run
timestamp == "20260105_101500"

\* line 174, show_logo = True
base_filename(patient_data) ==
    sample_number_of(patient_data) \o "_"
        \o replace_char(patient_data.patient_info.patient_name, " ", "_")
        \o "_" \o timestamp \o "_withlogo"

\* the parameters of PGTAReportTemplate.generate_pdf (pgta_template.py 304)
\* and of PGTADocxGenerator.generate_docx (pgta_docx_generator.py 102)
generate_pdf_parameters == {"output_path", "patient_data", "embryos_data", "show_logo"}

generate_docx_parameters == {"output_path", "patient_data", "embryos_data"}

\* a call with the keyword arguments kw raises TypeError unless the function
\* has them all as parameters
call_error(parameters, kw) == IF kw \subseteq parameters THEN "" ELSE "TypeError"

\* the exception, "" if none, that leaves the try block of one patient
\* (lines 170-203); pdf_ok and docx_ok say whether the file could be written
patient_error(w, pdf_ok, docx_ok) ==
    IF w.generate_pdf /\ call_error(generate_pdf_parameters, {"show_logo"}) # ""
    THEN "TypeError"
    ELSE IF w.generate_pdf /\ ~pdf_ok THEN "OSError"
    ELSE IF w.generate_docx /\ call_error(generate_docx_parameters, {"show_logo"}) # ""
    THEN "TypeError"
    ELSE IF w.generate_docx /\ ~docx_ok THEN "OSError"
    ELSE ""

\* the files one patient leaves in the output directory
patient_files(w, base, pdf_ok, docx_ok) ==
    {[base |-> base, ext |-> "pdf"] : x \in
        {1 : y \in {z \in {1} :
            /\ w.generate_pdf
            /\ call_error(generate_pdf_parameters, {"show_logo"}) = ""
            /\ pdf_ok}}}
    \cup
    {[base |-> base, ext |-> "docx"] : x \in
        {1 : y \in {z \in {1} :
            /\ w.generate_docx
            /\ (w.generate_pdf => pdf_ok)
            /\ call_error(generate_docx_parameters, {"show_logo"}) = ""
            /\ docx_ok}}}

\* a loop that ends at the first failed patient
after_patient_break(w, patient_data, error) ==
    [w EXCEPT
        !.idx = IF error = "" THEN @ + 1 ELSE Len(w.patient_data_list),
        !.success_reports =
            IF error = "" THEN Append(@, base_filename(patient_data)) ELSE @,
        !.failed_reports =
            IF error = "" THEN @
            ELSE Append(@, <<patient_data.patient_info.patient_name, error>>)]

\* lines 169-207: the worker after the try/except of one patient
after_patient(w, patient_data, error) ==
    [w EXCEPT
        !.idx = @ + 1,
        !.success_reports =
            IF error = "" THEN Append(@, base_filename(patient_data)) ELSE @,
        !.failed_reports =
            IF error = "" THEN @
            ELSE Append(@, <<patient_data.patient_info.patient_name, error>>)]

\* one iteration of the loop of ReportGeneratorWorker.run
WorkerPatient ==
    /\ worker.phase = "run"
    /\ worker.idx < Len(worker.patient_data_list)
    /\ \E pdf_ok, docx_ok \in BOOLEAN :
          /\ worker' = after_patient(worker, worker.patient_data_list[worker.idx + 1],
                                     patient_error(worker, pdf_ok, docx_ok))
          /\ written' = written \cup
                 patient_files(worker,
                               base_filename(worker.patient_data_list[worker.idx + 1]),
                               pdf_ok, docx_ok)
    /\ UNCHANGED <<disk_file, bulk_patient_data_list, batch_list_widget, message,
                   attached, s_row, clauses, row_out, current_batch_index,
                   batch_editor, draft_file, uncaught, current_patient_data,
                   format_checks>>
    /\ UNCHANGED render_vars
    /\ UNCHANGED preview_vars

\* lines 209-210: the loop is over, finished is emitted
WorkerFinished ==
    /\ worker.phase = "run"
    /\ worker.idx = Len(worker.patient_data_list)
    /\ worker' = [worker EXCEPT !.phase = "emitted", !.finished = @ + 1]
    /\ UNCHANGED <<disk_file, bulk_patient_data_list, batch_list_widget, message,
                   attached, s_row, clauses, row_out, current_batch_index,
                   batch_editor, draft_file, uncaught, current_patient_data,
                   format_checks, written>>
    /\ UNCHANGED render_vars
    /\ UNCHANGED preview_vars

\* generation_finished (lines 5937-5947), the slot of worker.finished
GenerationFinished ==
    /\ uncaught = "none"
    /\ worker.phase = "emitted"
    /\ worker' = [worker EXCEPT !.phase = "none"]
    /\ message' = "Complete"
    /\ UNCHANGED <<disk_file, bulk_patient_data_list, batch_list_widget, attached,
                   s_row, clauses, row_out, current_batch_index, batch_editor,
                   draft_file, uncaught, current_patient_data, format_checks,
                   written>>
    /\ UNCHANGED render_vars
    /\ UNCHANGED preview_vars

\* line 5554: the file name stem of generate_single_batch_report
single_base(data) ==
    replace_char(data.patient_info.patient_name, " ", "_") \o "_PGTA_Report_withlogo"

\* the exception, "" if none, caught by the try of lines 5550-5571
single_error(checks, pdf_ok, docx_ok) ==
    patient_error([generate_pdf |-> checks.pdf, generate_docx |-> checks.docx],
                  pdf_ok, docx_ok)

\* generate_single_batch_report (lines 5534-5571) with an output folder
\* selected: save_batch_edits first, then the two generators
GenerateSingleBatchReport ==
    /\ uncaught = "none"
    /\ current_batch_index # <<>>
    /\ IF current_batch_index[1] >= Len(bulk_patient_data_list)
       THEN /\ uncaught' = "IndexError"
            /\ UNCHANGED <<bulk_patient_data_list, message, written>>
       ELSE /\ bulk_patient_data_list' =
                   [bulk_patient_data_list EXCEPT
                       ![current_batch_index[1] + 1] = saved_record(@, batch_editor)]
            /\ \E pdf_ok, docx_ok \in BOOLEAN :
                  /\ written' =
                         patient_files(
                             [generate_pdf |-> format_checks.pdf,
                              generate_docx |-> format_checks.docx],
                             single_base(bulk_patient_data_list'[current_batch_index[1] + 1]),
                             pdf_ok, docx_ok)
                  /\ message' = IF single_error(format_checks, pdf_ok, docx_ok) = ""
                                THEN "Success" ELSE "Error"
            /\ UNCHANGED uncaught
    /\ UNCHANGED <<disk_file, batch_list_widget, attached, s_row, clauses, row_out,
                   current_batch_index, batch_editor, draft_file,
                   current_patient_data, format_checks, worker>>
    /\ UNCHANGED render_vars
    /\ UNCHANGED preview_vars

NextGenerate ==
    \/ SaveManualData
    \/ ToggleFormatCheck
    \/ GenerateReports
    \/ WorkerPatient
    \/ WorkerFinished
    \/ GenerationFinished

NextSingleReport ==
    \/ OnBatchSelectionChanged
    \/ EditBatchSampleNumber
    \/ ToggleFormatCheck
    \/ GenerateSingleBatchReport

\* the list widget parse_bulk_excel filled for the batch (lines 4957-4964)
widget_of(list) ==
    [i \in 1..Len(list) |->
        [patient_name |-> list[i].patient_info.patient_name,
         e_count |-> Len(list[i].embryos),
         data |-> i - 1]]

InitGenerate ==
    /\ NoBatchEditor
    /\ NoReport
    /\ disk_file = IdleFile
    /\ message = "none"
    /\ row_out = Idle
    /\ s_row = IdleRow
    /\ clauses = <<>>
    /\ bulk_patient_data_list \in GenerateBatches
    /\ batch_list_widget = widget_of(bulk_patient_data_list)
    /\ attached = [i \in 1..Len(bulk_patient_data_list) |-> <<>>]

SpecGenerate == InitGenerate /\ [][NextGenerate]_vars

SpecSingleReport == InitGenerate /\ [][NextSingleReport]_vars

-----------------------------------------------------------------------------
(* Properties *)

Loaded == message = "Success"

\* C1: after a load every summary row is attached to a listed patient or is
\* recorded in a list of unmatched rows; no row is silently dropped.
C1_AllRowsAccounted ==
    Loaded =>
        \A j \in 1..Len(disk_file.summary) :
            \/ \E k \in 1..Len(attached) : j \in Range(attached[k])
            \/ j \in unmatched_list

\* sum(len(d['embryos']) for d in bulk_patient_data_list), line 4970
RECURSIVE embryo_total(_)
embryo_total(list) ==
    IF list = <<>> THEN 0 ELSE Len(Head(list).embryos) + embryo_total(Tail(list))

\* C2: after a load every summary row is attached to at most one patient, so
\* the embryos of all patients together are no more than the summary rows.
C2_AtMostOnePatientPerRow ==
    Loaded =>
        /\ \A j \in 1..Len(disk_file.summary) :
              Cardinality({k \in 1..Len(attached) : j \in Range(attached[k])}) <= 1
        /\ embryo_total(bulk_patient_data_list) <= Len(disk_file.summary)

Embryo == row_out.embryo

Statuses == row_out.embryo.chromosome_statuses

Percentages == row_out.embryo.mosaic_percentages

QcFailure ==
    \/ upper(s_row.QC) = "FAIL"
    \/ Contains("INCONCLUSIVE", upper(s_row.Result))
    \/ Contains("RESEQUENCING", upper(s_row.Result))

LowDna ==
    /\ Contains("LOW", upper(s_row.Result))
    /\ Contains("DNA", upper(s_row.Result)) \/ Contains("READS", upper(s_row.Result))

Chaotic ==
    Contains("CHAOTIC", upper(s_row.Conclusion)) \/ Contains("CHAOTIC", upper(s_row.Result))

NormalKeyword ==
    \/ Contains("NO COPY NUMBER ABNORMALITY", upper(s_row.Conclusion))
    \/ upper(s_row.Conclusion) = "EUPLOID"
    \/ upper(s_row.Result) = "EUPLOID"

MosaicMarker ==
    Contains("MOSAIC", upper(s_row.Conclusion)) \/ Contains("MOSAIC", upper(s_row.Result))

AbnormalKeyword == Contains("ABNORMAL", upper(s_row.Conclusion))

\* C3: the classifier takes the first rule that matches, in the order QC
\* failure / inconclusive / re-sequencing, low DNA or reads, chaotic, normal,
\* mosaic, remaining abnormal; a QC=FAIL row with a mosaic marker is
\* Inconclusive, never Mosaic.
C3_ClassifierPrecedence ==
    row_out.done =>
        /\ QcFailure => Embryo.result_summary = "Inconclusive"
        /\ ~QcFailure /\ LowDna => Embryo.result_summary = "Low DNA concentration"
        /\ ~QcFailure /\ ~LowDna /\ Chaotic =>
              /\ Embryo.result_summary = "Multiple chromosomal abnormalities"
              /\ Embryo.interpretation = "Chaotic embryo"
        /\ ~QcFailure /\ ~LowDna /\ ~Chaotic /\ NormalKeyword =>
              Embryo.result_summary = "Normal chromosome complement"
        /\ ~QcFailure /\ ~LowDna /\ ~Chaotic /\ ~NormalKeyword /\ MosaicMarker =>
              Embryo.result_summary = "Mosaic chromosome complement"
        /\ ~QcFailure /\ ~LowDna /\ ~Chaotic /\ ~NormalKeyword /\ ~MosaicMarker
              /\ AbnormalKeyword =>
              /\ Embryo.result_summary = "Multiple chromosomal abnormalities"
              /\ Embryo.interpretation = "NA"
        /\ upper(s_row.QC) = "FAIL" /\ MosaicMarker =>
              /\ Embryo.result_summary = "Inconclusive"
              /\ Embryo.result_summary # "Mosaic chromosome complement"

C3_Witness ==
    /\ row_out.done
    /\ s_row.QC = "FAIL"
    /\ s_row.Conclusion = "Mosaic"
    /\ s_row.Result = "Mosaic +22(~51%)"
    /\ Embryo.result_summary = "Inconclusive"

\* C4: an embryo is Normal only when the conclusion matched the normal keyword
\* and the parsed status map is all N; a row with a non-N status or with a
\* conclusion that matches no keyword is not Normal by default.
C4_NormalOnlyWithoutAbnormality ==
    row_out.done /\ Embryo.result_summary = "Normal chromosome complement" =>
        /\ \A ch \in DOMAIN Statuses : Statuses[ch] = "N"
        /\ NormalKeyword

EventList == row_out.done /\ clauses # <<>>

\* C5: the split gives back exactly the clauses the lab wrote, whatever the
\* parenthesized qualifier holds: no clause is cut at a comma inside it.
C5_NoSplitInsideParentheses ==
    EventList =>
        row_out.parts = [i \in 1..Len(clauses) |-> RenderClause(clauses[i])]

\* C6: a result string of N clauses gives N events.
C6_OneEventPerClause ==
    EventList => Cardinality(DOMAIN row_out.p_stats) = Len(clauses)

\* the clauses reached the per-clause code as the lab wrote them
Intact ==
    /\ EventList
    /\ row_out.parts = [i \in 1..Len(clauses) |-> RenderClause(clauses[i])]

OnlyNaming(i) ==
    \A j \in 1..Len(clauses) : j # i => clauses[j].chr # clauses[i].chr

Segmental(d) == d.band # "" \/ d.size # ""

Upgraded(code) ==
    IF code = "L" THEN "ML" ELSE IF code = "G" THEN "MG"
    ELSE IF code = "SL" THEN "SML" ELSE IF code = "SG" THEN "SMG" ELSE code

BaseCode(d) ==
    IF d.kind \in {"del", "-"} THEN "L" ELSE IF d.kind \in {"dup", "+"} THEN "G" ELSE "M"

\* S in front of every base code of a clause with a band marker or a size
PrefixedEverywhere(d) ==
    LET code == IF Segmental(d) THEN "S" \o BaseCode(d) ELSE BaseCode(d)
    IN  IF d.pct # "" THEN Upgraded(code) ELSE code

\* S in front of the L or G of a deletion or duplication only
PrefixedDelDup(d) ==
    LET code == IF Segmental(d) /\ d.kind # "mos" THEN "S" \o BaseCode(d) ELSE BaseCode(d)
    IN  IF d.pct # "" THEN Upgraded(code) ELSE code

PercentRecorded(d) ==
    IF d.pct # ""
    THEN d.chr \in DOMAIN Percentages /\ Percentages[d.chr] = d.pct
    ELSE d.chr \notin DOMAIN Percentages

\* the clause the per-clause code was given, once it has run
PartDone == row_out.done /\ Len(clauses) = 1 /\ s_row = IdleRow

ThePart == clauses[1]

IsEvent(d) == d.kind \in {"del", "dup", "mos"}

PercentOf(d) == IF d.pct # "" THEN [k \in {d.chr} |-> d.pct] ELSE EmptyDict

\* C7 as stated: L, G or M by keyword, S in front whenever the clause has a
\* band marker or a size, the mosaic counterpart and the percentage when a
\* percentage is present.
C7_PrefixForEveryKind ==
    PartDone /\ IsEvent(ThePart) =>
        /\ row_out.maps.c_map = [k \in {ThePart.chr} |-> PrefixedEverywhere(ThePart)]
        /\ row_out.maps.m_map = PercentOf(ThePart)

\* C7: a deletion gives L, a duplication G, a mosaic marker M; the L or G of a
\* deletion or duplication gets S in front when the clause has a band marker
\* or a size, a mosaic-marker clause stays M; with a percentage L, G, SL, SG
\* become ML, MG, SML, SMG and the percentage is recorded for the chromosome.
C7_EventStatus ==
    /\ PartDone /\ IsEvent(ThePart) =>
          /\ row_out.maps.c_map = [k \in {ThePart.chr} |-> PrefixedDelDup(ThePart)]
          /\ row_out.maps.m_map = PercentOf(ThePart)
    /\ PartDone /\ row_out.part = "del(5)(p15.33q12.3)(~64.50Mb,~57%)" =>
          /\ row_out.maps.c_map = [k \in {"5"} |-> "SML"]
          /\ row_out.maps.m_map = [k \in {"5"} |-> "57"]
    /\ PartDone /\ row_out.part = "del(10)(q22.3q24.1)(~17.50Mb)" =>
          /\ row_out.maps.c_map = [k \in {"10"} |-> "SL"]
          /\ row_out.maps.m_map = EmptyDict
    /\ PartDone /\ row_out.part = "dup(18)(~30%)" =>
          /\ row_out.maps.c_map = [k \in {"18"} |-> "MG"]
          /\ row_out.maps.m_map = [k \in {"18"} |-> "30"]

C7_Witness ==
    /\ PartDone
    /\ row_out.part = "del(5)(p15.33q12.3)(~64.50Mb,~57%)"
    /\ row_out.maps.c_map["5"] = "SML"
    /\ row_out.maps.m_map["5"] = "57"

SignCode(d) == IF d.pct # "" THEN Upgraded(BaseCode(d)) ELSE BaseCode(d)

\* C8: a clause +chr gives G and -chr gives L; with a percentage the status is
\* MG or ML and the percentage is recorded for the chromosome.
C8_SignClauseStatus ==
    Intact =>
        \A i \in 1..Len(clauses) :
            IsSign(clauses[i]) /\ OnlyNaming(i) =>
                /\ Statuses[clauses[i].chr] = SignCode(clauses[i])
                /\ PercentRecorded(clauses[i])

MosaicCodes == {"M", "MG", "ML", "SMG", "SML"}

StatusCodes == {"N", "G", "L", "SG", "SL"} \cup MosaicCodes

\* C9: a chromosome has a mosaic percentage only if its status is a mosaic code.
C9_PercentOnlyForMosaic ==
    row_out.done =>
        \A ch \in DOMAIN Percentages :
            ch \in DOMAIN Statuses /\ Statuses[ch] \in MosaicCodes

\* C10: the status map has a status of the fixed codes for each chromosome
\* 1..22, and N for every chromosome no clause mentions, on every parse path.
C10_StatusMapWellFormed ==
    row_out.done =>
        /\ ChromKeys \subseteq DOMAIN Statuses
        /\ \A ch \in ChromKeys : Statuses[ch] \in StatusCodes
        /\ clauses # <<>> =>
              \A ch \in ChromKeys :
                  (\A i \in 1..Len(clauses) : clauses[i].chr # ch) => Statuses[ch] = "N"

\* Result cells whose only clause has no event keyword and no sign
UnparsedResults == {"Trisomy 21", "gain(7)"}

EmptyResultRow == [s_row EXCEPT !.Result = "nan"]

\* C11: a clause with no event keyword and no sign leaves its chromosome at N
\* and is recorded with the embryo, so the record differs from the record of
\* the same row with an empty result cell.
C11_UnparsedClauseRecorded ==
    row_out.done /\ s_row.Result \in UnparsedResults =>
        /\ \A ch \in ChromKeys : Statuses[ch] = "N"
        /\ Embryo # build_embryo(EmptyResultRow)

FallbackAssigned ==
    row_out.done /\ s_row # IdleRow /\ row_out.main = EmptyDict
                 /\ row_out.p_stats # EmptyDict

EventKeywordIn(s) ==
    Contains("del", lower(s)) \/ Contains("dup", lower(s)) \/ Contains("mos", lower(s))

\* C12: the dash fallback assigns a status only when the main parser found no
\* event and the cell has a dash and no del, dup or mos keyword, and the
\* status it assigns is L.
C12_LegacyFallbackGivesLoss ==
    FallbackAssigned =>
        /\ Contains("-", s_row.Result)
        /\ ~EventKeywordIn(s_row.Result)
        /\ \A ch \in DOMAIN row_out.p_stats :
              ch \in ChromKeys /\ Statuses[ch] = "L"

MosaicChromosomes == {ch \in DOMAIN Statuses : Statuses[ch] \in MosaicCodes}

\* the percentage written in each result cell of ClassifyResults that has one
WrittenPercent ==
    [r \in ClassifyResults |->
        IF r = "del(5)(p15.33q12.3)(~64.50Mb,~57%)" THEN 57
        ELSE IF r = "Mosaic +22(~51%)" THEN 51
        ELSE IF r \in {"dup(18)(~30%)", "dup(1)(~30%),dup(2)(~30%),dup(3)(~30%)"} THEN 30
        ELSE 0]

MosaicClassified ==
    row_out.done /\ s_row # IdleRow
                 /\ Embryo.result_summary = "Mosaic chromosome complement"

\* C13: an embryo classified Mosaic is High at 50 percent or more and Low
\* below, and Complex, whatever the percentage, when three or more
\* chromosomes are mosaic.
C13_MosaicSubLevel ==
    MosaicClassified /\ s_row.Result \in ClassifyResults =>
        Embryo.interpretation =
            IF Cardinality(MosaicChromosomes) >= 3 THEN "Complex mosaic"
            ELSE IF WrittenPercent[s_row.Result] >= 50 THEN "High level mosaic"
            ELSE "Low level mosaic"

RemainingAbnormal ==
    /\ row_out.done /\ s_row # IdleRow
    /\ ~QcFailure /\ ~LowDna /\ ~Chaotic /\ ~NormalKeyword /\ ~MosaicMarker
    /\ AbnormalKeyword

\* C14: a remaining abnormal conclusion is "Multiple chromosomal
\* abnormalities" only with more than two abnormal events in the result; with
\* one or two events the category is a single-abnormality label.
C14_MultipleOnlyAboveTwoEvents ==
    RemainingAbnormal =>
        (Embryo.result_summary = "Multiple chromosomal abnormalities"
            <=> abnormal_count(s_row.Result) > 2)

StatusOf(ch) == status_get(embryo_data.chromosome_statuses, ch)

CodeColor(code) ==
    IF code \in {"G", "L", "SG", "SL"} THEN "red"
    ELSE IF code \in MosaicCodes THEN "blue"
    ELSE "black"

PdfTable == pdf_page.done /\ pdf_page.has_page

DocxTable == docx_page.done /\ docx_page.has_page

\* C15: in the CNV table of the PDF and of the DOCX, every chromosome cell
\* whose status is G, L, SG or SL is red, M, MG, ML, SMG or SML blue, N black.
C15_StatusCodeColor ==
    /\ PdfTable =>
          \A ch \in ChromKeys :
              StatusOf(ch) \in StatusCodes => pdf_page.cnv[ch] = CodeColor(StatusOf(ch))
    /\ DocxTable =>
          \A ch \in ChromKeys :
              StatusOf(ch) \in StatusCodes => docx_page.cnv[ch] = CodeColor(StatusOf(ch))

C15_Witness ==
    /\ PdfTable /\ DocxTable
    /\ StatusOf("1") = "SMG" /\ StatusOf("2") = "N"
    /\ pdf_page.cnv["1"] = "blue" /\ docx_page.cnv["1"] = "blue"
    /\ pdf_page.cnv["2"] = "black" /\ docx_page.cnv["2"] = "black"

MosaicSemantics(rs, it) ==
    \/ rs = "Mosaic chromosome complement"
    \/ it \in {"Low level mosaic", "High level mosaic", "Complex mosaic"}

CategoryColor(rs, it) ==
    IF MosaicSemantics(rs, it) THEN "blue"
    ELSE IF rs = "Multiple chromosomal abnormalities" \/ it = "Chaotic embryo" THEN "red"
    ELSE "black"

\* C16: the color of a (result summary, interpretation) pair is blue when the
\* category or the interpretation is a mosaic one, red for any other abnormal
\* pair (Multiple chromosomal abnormalities, Chaotic embryo), black for
\* Normal, Inconclusive and Low DNA.
C16_CategoryColor ==
    pdf_page.done =>
        pdf_page.summary =
            CategoryColor(embryo_data.result_summary, embryo_data.interpretation)

\* C17: for every embryo record the PDF and the DOCX choose the same color for
\* the result summary, the interpretation, the autosomes, the sex chromosomes
\* and each CNV status.
C17_SameColorsInBothOutputs ==
    PdfTable /\ DocxTable =>
        /\ pdf_page.summary = docx_page.summary
        /\ pdf_page.interpretation = docx_page.interpretation
        /\ pdf_page.autosomes = docx_page.autosomes
        /\ pdf_page.sex = docx_page.sex
        /\ \A ch \in ChromKeys : pdf_page.cnv[ch] = docx_page.cnv[ch]

AutoCalled == auto_call.done

\* position of a chromosome in the report order: 1..22, then X, then Y
Rank(k) ==
    IF k = "1" THEN 1 ELSE IF k = "2" THEN 2 ELSE IF k = "11" THEN 11
    ELSE IF k \in {"X", "x"} THEN 23 ELSE 24

Ascending(q) == \A i, j \in 1..Len(q) : i < j => Rank(q[i]) <= Rank(q[j])

Orderings(keys) ==
    {q \in [1..Cardinality(keys) -> keys] : Range(q) = keys /\ Ascending(q)}

ConcisePairs(q) == [i \in 1..Len(q) |-> q[i] \o " " \o auto_call.stats[q[i]]]

RECURSIVE CommaJoined(_)
CommaJoined(q) ==
    IF Len(q) = 1 THEN q[1] ELSE q[1] \o ", " \o CommaJoined(Tail(q))

OnlyKey == auto_call.order[1]

\* C18: generate_autosomes_string gives "Normal" for an empty map, for one
\* chromosome "<chr> chromosome, CNV status <code>" plus ", Mosaic(%) <pct>"
\* when it has a percentage, and for several the "<chr> <code>" pairs joined
\* by ", " in ascending order, numeric chromosomes before X before Y,
\* whatever the order of the map.
C18_AutosomesString ==
    AutoCalled =>
        /\ Len(auto_call.order) = 0 => auto_call.result = "Normal"
        /\ Len(auto_call.order) = 1 =>
              auto_call.result =
                  OnlyKey \o " chromosome, CNV status " \o auto_call.stats[OnlyKey]
                    \o (IF OnlyKey \in DOMAIN auto_call.mosaic_map
                        THEN ", Mosaic(%) " \o auto_call.mosaic_map[OnlyKey] ELSE "")
        /\ Len(auto_call.order) > 1 =>
              \E q \in Orderings(Range(auto_call.order)) :
                  auto_call.result = CommaJoined(ConcisePairs(q))

C18_Witness ==
    /\ AutoCalled
    /\ auto_call.order = <<"Y", "X", "11">>
    /\ auto_call.stats["11"] = "MG" /\ auto_call.stats["X"] = "SG"
    /\ auto_call.stats["Y"] = "SG"
    /\ auto_call.result = "11 MG, X SG, Y SG"

\* a match under the normalization with prefix and suffix stripping
NormalizedMatch(p_row, row) ==
    contains_key(normalize_str_enhanced(p_row.Sample_ID),
                 normalize_str_enhanced(strip(p_row.Patient_Name)),
                 normalize_str_enhanced(row.Sample_name))

AttachedTo(p_row, j) ==
    \E k \in 1..Len(bulk_patient_data_list) :
        /\ bulk_patient_data_list[k].patient_info.patient_name = strip(p_row.Patient_Name)
        /\ j \in Range(attached[k])

\* C19: identifiers are compared after upper-casing, stripping one leading
\* honorific or initial, removing non-alphanumerics and stripping one trailing
\* suffix letter; every summary row that matches a roster row by sample
\* identifier or by name under this normalization is attached to that patient.
C19_NormalizedLinkage ==
    Loaded =>
        \A i \in 1..Len(disk_file.details), j \in 1..Len(disk_file.summary) :
            listed(disk_file.details[i])
              /\ NormalizedMatch(disk_file.details[i], disk_file.summary[j])
              => AttachedTo(disk_file.details[i], j)

InPatientList(p_row) ==
    \E k \in 1..Len(batch_list_widget) :
        batch_list_widget[k].patient_name = strip(p_row.Patient_Name)

\* C20: after a load every roster row with a patient name is in the patient
\* list, with no embryos if none matched, or is reported as a miss.
C20_EmptyPatientFlagged ==
    Loaded =>
        \A i \in 1..Len(disk_file.details) :
            listed(disk_file.details[i]) =>
                InPatientList(disk_file.details[i]) \/ i \in missed_roster_rows

\* What the lab supplied in the MTcopy column of the row that was processed
SuppliedMTcopy == strip(s_row.MTcopy)

BulkNormal == row_out.embryo.result_summary = "Normal chromosome complement"

MTcopyShown(page) ==
    IF BulkNormal
    THEN lower(SuppliedMTcopy) # "nan" => page.mtcopy = SuppliedMTcopy
    ELSE page.mtcopy = "NA"

\* C21: in either output the MTcopy of a bulk-loaded embryo is "NA" when the
\* embryo is not Normal, and is the MTcopy value the lab supplied when the
\* bulk parser classified the embryo Normal.
C21_MTcopyOfNormalEmbryo ==
    /\ pdf_page.done => MTcopyShown(pdf_page)
    /\ docx_page.done => MTcopyShown(docx_page)

\* the three-valued reading of a SEX cell
SexWord(sex_raw) ==
    IF lower(sex_raw) \in NullWords \/ lower(sex_raw) = "normal" THEN "Normal"
    ELSE IF lower(sex_raw) = "mosaic" THEN "Mosaic"
    ELSE "Abnormal"

\* C23: the sex chromosome value of a bulk-loaded embryo is "Normal" for an
\* empty, null or "normal" SEX cell, "Mosaic" for "mosaic" and "Abnormal" for
\* everything else, and equals what the verification script extracts.
C23_SexColumnThreeValued ==
    row_out.done =>
        /\ row_out.embryo.sex_chromosomes = SexWord(strip(s_row.SEX))
        /\ row_out.embryo.sex_chromosomes = test_extraction_logic(s_row.SEX)

\* the identifier of a listed patient: empty when the Sample ID cell is blank
IdentifierKey(k) == keep_alnum(upper(bulk_patient_data_list[k].patient_info.pin))

NameKey(k) == keep_alnum(upper(bulk_patient_data_list[k].patient_info.patient_name))

SampleKey(j) == keep_alnum(upper(disk_file.summary[j].Sample_name))

\* C30: a result row is attached to a patient only if the patient's non-empty
\* normalized sample identifier, or else the non-empty normalized name, is
\* contained in the normalized sample name; a blank Sample ID is the empty
\* identifier and matches nothing.
C30_BlankIdentifierNeverMatches ==
    Loaded =>
        \A k \in 1..Len(bulk_patient_data_list) :
            \A j \in Range(attached[k]) :
                \/ IdentifierKey(k) # "" /\ Contains(IdentifierKey(k), SampleKey(j))
                \/ NameKey(k) # "" /\ Contains(NameKey(k), SampleKey(j))

\* a workbook without a required sheet or identifying column, or whose load
\* raises part-way
StructuralError(file) ==
    \/ ~sheets_present(file)
    \/ "Patient Name" \in file.absent
    \/ "Sample name" \in file.absent
    \/ listdir_raises(file)

\* C22: a load of a workbook with a structural error reports an error and
\* leaves the previously loaded batch unchanged; no partial or empty batch is
\* installed and reported as a success.
C22_StructuralErrorsAtomic ==
    [][BrowseAndParseBulkFile /\ StructuralError(disk_file') =>
          /\ message' \in {"Invalid Format", "Parse Error"}
          /\ bulk_patient_data_list' = bulk_patient_data_list]_vars

\* the record save_batch_edits is about to write into shows the patient of
\* the editor
EditorRecord ==
    /\ current_batch_index[1] < Len(bulk_patient_data_list)
    /\ bulk_patient_data_list[current_batch_index[1] + 1].patient_info.patient_name
         = batch_editor.batch_patient_name

\* C28: save_batch_edits writes only into the record the editor was populated
\* from, also after the bulk list was replaced, and current_batch_index is a
\* valid index of the current list whenever it is used.
C28_SaveWritesOwnRecord == [][SaveBatchEdits => EditorRecord]_vars

\* the files of the i-th patient of the worker's list
PdfOf(i) == [base |-> base_filename(worker.patient_data_list[i]), ext |-> "pdf"]

DocxOf(i) == [base |-> base_filename(worker.patient_data_list[i]), ext |-> "docx"]

Succeeded(i) ==
    base_filename(worker.patient_data_list[i]) \in Range(worker.success_reports)

\* the i-th patient failed because a file could not be written
FailedOnOutput(i) ==
    <<worker.patient_data_list[i].patient_info.patient_name, "OSError">>
        \in Range(worker.failed_reports)

\* C26: with PDF and DOCX both selected, every patient whose PDF was produced
\* also gets its DOCX and is reported as a success, unless the DOCX file
\* itself could not be written.
C26_DocxAlongsidePdf ==
    worker.generate_pdf /\ worker.generate_docx =>
        \A i \in 1..worker.idx :
            PdfOf(i) \in written =>
                \/ DocxOf(i) \in written /\ Succeeded(i)
                \/ FailedOnOutput(i)

Failed(i) ==
    \E k \in 1..Len(worker.failed_reports) :
        worker.failed_reports[k][1] = worker.patient_data_list[i].patient_info.patient_name

\* the entries the first k patients left in success_reports, in list order
RECURSIVE SuccessesUpto(_)
SuccessesUpto(k) ==
    IF k = 0 THEN <<>>
    ELSE IF Succeeded(k)
         THEN Append(SuccessesUpto(k - 1), base_filename(worker.patient_data_list[k]))
         ELSE SuccessesUpto(k - 1)

\* the names the first k patients left in failed_reports, in list order
RECURSIVE FailuresUpto(_)
FailuresUpto(k) ==
    IF k = 0 THEN <<>>
    ELSE IF Failed(k)
         THEN Append(FailuresUpto(k - 1),
                     worker.patient_data_list[k].patient_info.patient_name)
         ELSE FailuresUpto(k - 1)

FailedNames == [k \in 1..Len(worker.failed_reports) |-> worker.failed_reports[k][1]]

ManualCount(list) ==
    Cardinality({i \in 1..Len(list) : list[i] = current_patient_data[1]})

\* C29: generate_reports with a bulk batch and a saved manual entry hands the
\* worker the manual entry exactly once and all bulk patients but at most
\* one, the one with the manual entry's sample number.
C29_MergeRemovesAtMostOne ==
    [][GenerateReports /\ worker'.phase = "run" /\ current_patient_data # <<>>
          /\ bulk_patient_data_list # <<>> =>
          /\ ManualCount(worker'.patient_data_list) = 1
          /\ Len(worker'.patient_data_list) >= Len(bulk_patient_data_list)]_vars

-----------------------------------------------------------------------------
(* The manual entry form: embryo count, edits and copy_last_embryo *)

\* the values the user sets embryo_count_spin to
EmbryoCounts == {MaxEmbryoCount - 1, MaxEmbryoCount}

\* the user changes embryo_count_spin: valueChanged calls update_embryo_forms
\* (line 512); the items set into a new row emit itemChanged, which is
\* connected to update_preview (line 819)
SetEmbryoCount ==
    /\ \E n \in EmbryoCounts :
          /\ n # manual_form.embryo_count_spin
          /\ manual_form' =
                 update_embryo_forms(
                     [manual_form EXCEPT !.embryo_count_spin = n], n)
          /\ preview_timer' =
                 (preview_timer \/ n > Len(manual_form.summary_table))
    /\ UNCHANGED <<disk_file, bulk_patient_data_list, batch_list_widget, message,
                   attached, s_row, clauses, row_out, current_batch_index,
                   batch_editor, draft_file, uncaught, preview_worker,
                   pdf_document, batch_preview_vars, temp_files, queued>>
    /\ UNCHANGED render_vars
    /\ UNCHANGED report_vars

\* the widgets of a detail form the user fills in
FormFields == {"autosomes", "status", "mosaic"}

\* the user types "-16" into autosomes, picks "L" for chromosome 16 or types
\* "30" into the mosaic input of chromosome 18
edit_form(f, field) ==
    CASE field = "autosomes" -> [f EXCEPT !.autosomes = "-16"]
      [] field = "status" -> [f EXCEPT !.chr_inputs["16"].status = "L"]
      [] field = "mosaic" -> [f EXCEPT !.chr_inputs["18"].mosaic = "30"]

\* the embryo the user edits: the last one
edited_embryos(form) == {Len(form.summary_table)}

\* an edit in embryo_forms[i]; textChanged and currentTextChanged are
\* connected to update_preview (lines 901-903, 961, 968)
EditEmbryoForm ==
    /\ \E i \in edited_embryos(manual_form), field \in FormFields :
          /\ edit_form(manual_form.embryo_forms[i], field)
                 # manual_form.embryo_forms[i]
          /\ manual_form' =
                 [manual_form EXCEPT
                     !.embryo_forms[i] = edit_form(@, field)]
    /\ preview_timer' = TRUE
    /\ UNCHANGED <<disk_file, bulk_patient_data_list, batch_list_widget, message,
                   attached, s_row, clauses, row_out, current_batch_index,
                   batch_editor, draft_file, uncaught, preview_worker,
                   pdf_document, batch_preview_vars, temp_files, queued>>
    /\ UNCHANGED render_vars
    /\ UNCHANGED report_vars

\* the user types the MTcopy "12" into row i of summary_table; itemChanged is
\* connected to update_preview (line 819)
EditSummaryTable ==
    /\ \E i \in edited_embryos(manual_form) :
          /\ manual_form.summary_table[i].mtcopy # "12"
          /\ manual_form' =
                 [manual_form EXCEPT !.summary_table[i].mtcopy = "12"]
    /\ preview_timer' = TRUE
    /\ UNCHANGED <<disk_file, bulk_patient_data_list, batch_list_widget, message,
                   attached, s_row, clauses, row_out, current_batch_index,
                   batch_editor, draft_file, uncaught, preview_worker,
                   pdf_document, batch_preview_vars, temp_files, queued>>
    /\ UNCHANGED render_vars
    /\ UNCHANGED report_vars

\* lines 1376-1384: setCurrentText on the status combo, setText on the mosaic
\* input of every chromosome
chr_inputs_of_copy(chr_statuses, mosaic_data) ==
    [ch \in ChromKeys |->
        [status |-> set_current_text(ManualStatusItems, "N",
                                     status_get(chr_statuses, ch)),
         mosaic |-> IF ch \in DOMAIN mosaic_data THEN mosaic_data[ch] ELSE ""]]

\* lines 1367-1396: the widgets of the new embryo take the values of
\* last_embryo; new_index counts from 0
fill_new_embryo(form, last_embryo, new_index) ==
    IF new_index < Len(form.embryo_forms)
    THEN [form EXCEPT
             !.embryo_forms[new_index + 1] =
                 [result_description |-> last_embryo.result_description,
                  autosomes |-> last_embryo.autosomes,
                  sex_chromosomes |-> last_embryo.sex_chromosomes,
                  chr_inputs |->
                      chr_inputs_of_copy(last_embryo.chromosome_statuses,
                                         last_embryo.mosaic_percentages)],
             !.summary_table[new_index + 1] =
                 [@ EXCEPT !.result_summary = last_embryo.result_summary,
                           !.interpretation = last_embryo.interpretation,
                           !.mtcopy = last_embryo.mtcopy]]
    ELSE form

\* copy_last_embryo returns before it changed anything (lines 1349-1358)
copy_refused(form) ==
    \/ manual_embryos(form) = <<>>
    \/ form.embryo_count_spin >= MaxEmbryoCount

\* the form after copy_last_embryo (lines 1345-1399)
copy_last_embryo(form) ==
    IF copy_refused(form) THEN form
    ELSE fill_new_embryo(
             update_embryo_forms(
                 [form EXCEPT !.embryo_count_spin = @ + 1],
                 form.embryo_count_spin + 1),
             manual_embryos(form)[Len(manual_embryos(form))],
             form.embryo_count_spin)

\* the button Copy Last Embryo
CopyLastEmbryo ==
    /\ manual_form' = copy_last_embryo(manual_form)
    /\ message' = IF /\ manual_embryos(manual_form) # <<>>
                     /\ manual_form.embryo_count_spin >= MaxEmbryoCount
                  THEN "Limit Reached" ELSE message
    /\ preview_timer' = (preview_timer \/ ~copy_refused(manual_form))
    /\ UNCHANGED <<disk_file, bulk_patient_data_list, batch_list_widget,
                   attached, s_row, clauses, row_out, current_batch_index,
                   batch_editor, draft_file, uncaught, preview_worker,
                   pdf_document, batch_preview_vars, temp_files, queued>>
    /\ UNCHANGED render_vars
    /\ UNCHANGED report_vars

NextManual ==
    SetEmbryoCount \/ EditEmbryoForm \/ EditSummaryTable \/ CopyLastEmbryo

InitManual == InitBatch

SpecManual == InitManual /\ [][NextManual]_vars

\* the eight fields of an embryo that copy_last_embryo copies
copied_fields(e) ==
    <<e.result_summary, e.interpretation, e.mtcopy, e.result_description,
      e.autosomes, e.sex_chromosomes, e.chromosome_statuses,
      e.mosaic_percentages>>

\* one embryo was added, it equals the previous last embryo and every embryo
\* that existed has the data it had
CopiedOnly ==
    /\ Len(manual_embryos(manual_form')) = Len(manual_embryos(manual_form)) + 1
    /\ copied_fields(manual_embryos(manual_form')[Len(manual_form'.summary_table)])
           = copied_fields(manual_embryos(manual_form)[Len(manual_form.summary_table)])
    /\ \A i \in 1..Len(manual_form.summary_table) :
          manual_embryos(manual_form')[i] = manual_embryos(manual_form)[i]

\* C25: copy_last_embryo with fewer than 20 embryos adds exactly one embryo
\* whose eight data fields equal those of the previous last embryo and leaves
\* the data of every embryo that existed unchanged; at 20 embryos it changes
\* nothing in the form.
C25_CopyAddsOneKeepsRest ==
    [][CopyLastEmbryo =>
          IF Len(manual_form.summary_table) < MaxEmbryoCount
          THEN CopiedOnly
          ELSE manual_form' = manual_form]_vars

-----------------------------------------------------------------------------
(* The live previews: debounce timer, PreviewWorker thread, finished slot *)

\* the finished signals that may wait for their slot at one time
MaxQueued == 2

\* one entry of e_data in start_preview_generation (lines 705-774), idx from
\* 1; the dict has no sex_chromosomes key
preview_embryo(form, idx) ==
    [embryo_id |-> IF Len(form.summary_table) >= idx
                   THEN form.summary_table[idx].item_id ELSE EmbryoIds[idx],
     result_summary |-> IF Len(form.summary_table) >= idx
                        THEN form.summary_table[idx].result_summary ELSE "",
     interpretation |-> IF Len(form.summary_table) >= idx
                        THEN form.summary_table[idx].interpretation ELSE "NA",
     result_description |-> form.embryo_forms[idx].result_description,
     autosomes |-> form.embryo_forms[idx].autosomes,
     mtcopy |-> IF Len(form.summary_table) >= idx
                THEN form.summary_table[idx].mtcopy ELSE "NA",
     chromosome_statuses |->
         [ch \in ChromKeys |-> form.embryo_forms[idx].chr_inputs[ch].status],
     mosaic_percentages |->
         [ch \in ChromKeys |-> form.embryo_forms[idx].chr_inputs[ch].mosaic]]

\* e_data of start_preview_generation (lines 701-782)
preview_e_data(form) ==
    IF form.embryo_forms # <<>>
    THEN [idx \in 1..Len(form.embryo_forms) |-> preview_embryo(form, idx)]
    ELSE <<[embryo_id |-> "E1", result_summary |-> "Euploid",
            interpretation |-> "Euploid",
            chromosome_statuses |-> InitialStatuses]>>

\* temp_pdf of start_preview_generation (line 784)
temp_preview == "temp_preview.pdf"

\* PreviewWorker(p_data, e_data, temp_pdf) after start() (lines 113-118, 793)
new_preview_worker(p_data, e_data, temp_pdf) ==
    [isRunning |-> TRUE, patient_data |-> p_data, embryos_data |-> e_data,
     output_path |-> temp_pdf]

\* hasattr(self, 'preview_worker') and self.preview_worker.isRunning()
worker_running(w) == w # <<>> /\ w[1].isRunning

\* the PDF generate_pdf writes for the data of a PreviewWorker (line 124)
preview_pdf(p_data, e_data) == [patient_data |-> p_data, embryos_data |-> e_data]

\* the manual form's patient fields, which no action of the model edits
manual_p_data == [patient_name |-> "", pin |-> "", sample_number |-> ""]

\* preview_timer times out: start_preview_generation (lines 677-794) starts a
\* PreviewWorker on the form as it is now, or returns when one is running
StartPreviewGeneration ==
    /\ preview_timer
    /\ preview_timer' = FALSE
    /\ preview_worker' =
           IF worker_running(preview_worker) THEN preview_worker
           ELSE <<new_preview_worker(manual_p_data,
                                     preview_e_data(manual_form), temp_preview)>>
    /\ UNCHANGED <<disk_file, bulk_patient_data_list, batch_list_widget, message,
                   attached, s_row, clauses, row_out, current_batch_index,
                   batch_editor, draft_file, uncaught, manual_form,
                   pdf_document, batch_preview_vars, temp_files, queued>>
    /\ UNCHANGED render_vars
    /\ UNCHANGED report_vars

\* PreviewWorker.run (lines 120-127) of the thread w: the PDF is written and
\* finished is emitted towards slot
run_preview_worker(w, slot) ==
    /\ worker_running(w)
    /\ Len(queued) < MaxQueued
    /\ temp_files' =
           dict_set(temp_files, w[1].output_path,
                    preview_pdf(w[1].patient_data, w[1].embryos_data))
    /\ queued' = Append(queued, [slot |-> slot, pdf_path |-> w[1].output_path])

\* the thread of preview_worker runs to its end
RunPreviewWorker ==
    /\ run_preview_worker(preview_worker, "on_preview_generated")
    /\ preview_worker' = <<[preview_worker[1] EXCEPT !.isRunning = FALSE]>>
    /\ UNCHANGED <<disk_file, bulk_patient_data_list, batch_list_widget, message,
                   attached, s_row, clauses, row_out, current_batch_index,
                   batch_editor, draft_file, uncaught, manual_form,
                   preview_timer, pdf_document, batch_preview_vars>>
    /\ UNCHANGED render_vars
    /\ UNCHANGED report_vars

\* the event loop delivers the oldest finished signal to slot
delivered(slot) ==
    /\ queued # <<>>
    /\ Head(queued).slot = slot
    /\ queued' = Tail(queued)

\* on_preview_generated(pdf_path), lines 796-807
OnPreviewGenerated ==
    /\ delivered("on_preview_generated")
    /\ pdf_document' =
           IF Head(queued).pdf_path \in DOMAIN temp_files
           THEN <<temp_files[Head(queued).pdf_path]>> ELSE pdf_document
    /\ UNCHANGED <<disk_file, bulk_patient_data_list, batch_list_widget, message,
                   attached, s_row, clauses, row_out, current_batch_index,
                   batch_editor, draft_file, uncaught, manual_form,
                   preview_timer, preview_worker, batch_preview_vars,
                   temp_files>>
    /\ UNCHANGED render_vars
    /\ UNCHANGED report_vars

\* p_data of start_batch_preview_generation (lines 5413-5428)
batch_p_data(editor) ==
    [patient_name |-> editor.batch_patient_name,
     pin |-> editor.batch_pin,
     sample_number |-> editor.batch_sample_number]

\* one entry of e_data in start_batch_preview_generation (lines 5431-5444)
batch_preview_embryo(e) ==
    [embryo_id |-> e.embryo_id,
     result_summary |-> e.result_summary,
     interpretation |-> e.interpretation,
     result_description |-> e.result_description,
     autosomes |-> e.autosomes,
     sex_chromosomes |-> e.sex_chromosomes,
     mtcopy |-> e.mtcopy,
     chromosome_statuses |-> [ch \in DOMAIN e.chr_inputs |-> e.chr_inputs[ch].status],
     mosaic_percentages |-> [ch \in DOMAIN e.chr_inputs |-> e.chr_inputs[ch].mosaic]]

batch_e_data(editor) ==
    [i \in 1..Len(editor.batch_embryo_editors) |->
        batch_preview_embryo(editor.batch_embryo_editors[i])]

\* f"batch_preview_{self.current_batch_index}.pdf" (line 5447)
batch_temp_pdf(idx) ==
    "batch_preview_" \o SubSeq(DigitString, idx + 1, idx + 1) \o ".pdf"

\* batch_preview_timer times out: start_batch_preview_generation (lines
\* 5404-5456)
StartBatchPreviewGeneration ==
    /\ batch_preview_timer
    /\ batch_preview_timer' = FALSE
    /\ batch_preview_worker' =
           IF current_batch_index = <<>> THEN batch_preview_worker
           ELSE IF worker_running(batch_preview_worker) THEN batch_preview_worker
           ELSE <<new_preview_worker(batch_p_data(batch_editor),
                                     batch_e_data(batch_editor),
                                     batch_temp_pdf(current_batch_index[1]))>>
    /\ UNCHANGED <<disk_file, bulk_patient_data_list, batch_list_widget, message,
                   attached, s_row, clauses, row_out, current_batch_index,
                   batch_editor, draft_file, uncaught, manual_vars,
                   batch_pdf_document, temp_files, queued>>
    /\ UNCHANGED render_vars
    /\ UNCHANGED report_vars

\* the thread of batch_preview_worker runs to its end
RunBatchPreviewWorker ==
    /\ run_preview_worker(batch_preview_worker, "on_batch_preview_generated")
    /\ batch_preview_worker' =
           <<[batch_preview_worker[1] EXCEPT !.isRunning = FALSE]>>
    /\ UNCHANGED <<disk_file, bulk_patient_data_list, batch_list_widget, message,
                   attached, s_row, clauses, row_out, current_batch_index,
                   batch_editor, draft_file, uncaught, manual_vars,
                   batch_preview_timer, batch_pdf_document>>
    /\ UNCHANGED render_vars
    /\ UNCHANGED report_vars

\* on_batch_preview_generated(pdf_path), lines 5458-5462
OnBatchPreviewGenerated ==
    /\ delivered("on_batch_preview_generated")
    /\ batch_pdf_document' =
           IF Head(queued).pdf_path \in DOMAIN temp_files
           THEN <<temp_files[Head(queued).pdf_path]>> ELSE batch_pdf_document
    /\ UNCHANGED <<disk_file, bulk_patient_data_list, batch_list_widget, message,
                   attached, s_row, clauses, row_out, current_batch_index,
                   batch_editor, draft_file, uncaught, manual_vars,
                   batch_preview_timer, batch_preview_worker, temp_files>>
    /\ UNCHANGED render_vars
    /\ UNCHANGED report_vars

NextPreview ==
    \/ EditSummaryTable
    \/ OnBatchSelectionChanged
    \/ StartPreviewGeneration
    \/ RunPreviewWorker
    \/ OnPreviewGenerated
    \/ StartBatchPreviewGeneration
    \/ RunBatchPreviewWorker
    \/ OnBatchPreviewGenerated

\* the application with the second run loaded in the batch tab
InitPreview ==
    /\ NoBatchEditor
    /\ NoReport
    /\ disk_file = RunB
    /\ message = "Success"
    /\ row_out = Idle
    /\ s_row = IdleRow
    /\ clauses = <<>>
    /\ bulk_patient_data_list = batch_of(RunB)
    /\ batch_list_widget = widget_of(batch_of(RunB))
    /\ attached = <<>>

\* an active single-shot QTimer times out, a started QThread runs to its end
\* and the event loop delivers every queued signal
SpecPreview ==
    /\ InitPreview
    /\ [][NextPreview]_vars
    /\ WF_vars(StartPreviewGeneration)
    /\ WF_vars(RunPreviewWorker)
    /\ WF_vars(OnPreviewGenerated)
    /\ WF_vars(StartBatchPreviewGeneration)
    /\ WF_vars(RunBatchPreviewWorker)
    /\ WF_vars(OnBatchPreviewGenerated)

\* the manual preview shows the PDF of the form as it is now
PreviewFresh ==
    pdf_document = <<preview_pdf(manual_p_data, preview_e_data(manual_form))>>

\* the batch preview shows the PDF of the editor as it is now
BatchPreviewFresh ==
    batch_editor.shown =>
        batch_pdf_document =
            <<preview_pdf(batch_p_data(batch_editor), batch_e_data(batch_editor))>>

\* an edit of the manual form or a selection in the batch list
FormEdited ==
    \/ manual_form' # manual_form
    \/ OnBatchSelectionChanged

\* C24: once the edits of the manual form and the selections of the batch
\* list have stopped, both previews eventually show, and keep showing, the
\* PDF generated from the final contents; no preview stays stale.
C24_PreviewFollowsForm ==
    \/ []<><<FormEdited>>_vars
    \/ <>[](PreviewFresh /\ BatchPreviewFresh)

====
